---- MODULE Spec2Model ----
(***************************************************************************)
(* Conversion of an Interchange to a GROMACSSystem (_convert and its       *)
(* helpers _convert_bonds, _convert_angles, _convert_dihedrals) and the    *)
(* GROMACSWriter that serialises the GROMACSSystem to a .top file.         *)
(*                                                                         *)
(* Python indices are kept 0-based as in the source (molecule indices,     *)
(* local and topology atom indices); TLA+ sequences are 1-based, so the    *)
(* molecule with Python index i sits at topology[i + 1].                   *)
(***************************************************************************)
EXTENDS Integers, Sequences, FiniteSets, TLC

\* Largest number of molecule instances in a topology.
MaxMols == 3
\* Largest number of _convert calls made on one Interchange object.
MaxCalls == 2
\* Largest number of section methods called on one text stream.
MaxWrites == 2
\* Largest number of store_matches and store_potentials calls on one handler.
MaxStores == 4
\* Largest number of store_constraints calls on one constraint handler.
MaxConstraintStores == 2

VARIABLES
    topology,      \* interchange.topology: one record per molecule instance
    collections,   \* interchange.collections: the handlers and their key maps
    results,       \* outcomes of the _convert calls made so far, in call order
    writer,        \* the GROMACSWriter built on the latest System, and its file
    stream,        \* the text stream (`top`) handed to the writer's section methods
    pair_enumerator, \* how _get_14_pairs yields the 1-4 pairs of a molecule
    openff_sys,    \* the System handed to the earlier writer (to_gro, to_top)
    files,         \* the files the earlier writer was asked to write
    potential_handler,  \* a SMIRNOFF handler instance: slot_map and potentials
    store_calls,        \* the store_* calls made on it, with their matches
    constraint_handler  \* a SMIRNOFFConstraintHandler instance and its calls

\* The Interchange, the outcomes of its conversion and the GROMACSWriter.
interchange_vars == <<topology, collections, results, writer, stream, pair_enumerator>>

\* The System of the earlier writer and its files.
system_vars == <<openff_sys, files>>

\* The SMIRNOFF handlers.
smirnoff_vars == <<potential_handler, store_calls, constraint_handler>>

vars == <<interchange_vars, system_vars, smirnoff_vars>>

\* Python's None, for metadata.get("residue_name", None) and absent handlers.
None == "#None"

----------------------------------------------------------------------------
(* Python dict: insertion-ordered, assignment to an existing key keeps the  *)
(* key's position and replaces its value.                                   *)

DictHas(d, k) == \E i \in 1..Len(d) : d[i].key = k

DictGet(d, k) == d[CHOOSE i \in 1..Len(d) : d[i].key = k].val

DictSet(d, k, v) ==
    IF DictHas(d, k)
    THEN [i \in 1..Len(d) |-> IF d[i].key = k THEN [key |-> k, val |-> v] ELSE d[i]]
    ELSE Append(d, [key |-> k, val |-> v])

DictKeys(d) == [i \in 1..Len(d) |-> d[i].key]

\* sorted() of a pair of integers, and tuple[::-1].
Sorted2(a, b) == IF a <= b THEN <<a, b>> ELSE <<b, a>>

Reversed(t) == [i \in 1..Len(t) |-> t[Len(t) + 1 - i]]

RECURSIVE SumSeq(_)
SumSeq(s) == IF s = <<>> THEN 0 ELSE Head(s) + SumSeq(Tail(s))

RECURSIVE Flatten(_)
Flatten(ss) == IF ss = <<>> THEN <<>> ELSE Head(ss) \o Flatten(Tail(ss))

\* Position of the first TRUE of a sequence of booleans, 0 when there is none:
\* a for loop that breaks on its first hit.
FirstIndex(flags) ==
    LET hits == {i \in 1..Len(flags) : flags[i]}
    IN IF hits = {} THEN 0 ELSE CHOOSE i \in hits : \A j \in hits : i <= j

----------------------------------------------------------------------------
(* The topology adapter: what the toolkit Molecule enumerates for each of   *)
(* the chemistries the model draws molecules from.  Two molecules are       *)
(* isomorphic exactly when they have the same chemistry.  Atom tuples are   *)
(* 0-based local atom indices, in the order the adapter yields them.        *)

Chems == {"Ar", "HCl", "H2O", "H2O2", "CH2O", "HC9N"}

\* The tuples of width consecutive atoms of an unbranched chain of n atoms.
ChainTuples(n, width) ==
    [j \in 1..(n + 1 - width) |-> [i \in 1..width |-> j + i - 2]]

\* atom.atomic_number for unique_molecule.atoms
ChemAtoms(c) ==
    CASE c = "Ar"   -> <<18>>
      [] c = "HCl"  -> <<1, 17>>
      [] c = "H2O"  -> <<8, 1, 1>>
      [] c = "H2O2" -> <<1, 8, 8, 1>>
      [] c = "CH2O" -> <<6, 8, 1, 1>>
      [] c = "HC9N" -> <<1, 6, 6, 6, 6, 6, 6, 6, 6, 6, 7>>

NAtoms(c) == Len(ChemAtoms(c))

\* bond.atoms for unique_molecule.bonds (not necessarily ascending)
ChemBonds(c) ==
    CASE c = "Ar"   -> <<>>
      [] c = "HCl"  -> << <<1, 0>> >>
      [] c = "H2O"  -> << <<0, 1>>, <<2, 0>> >>
      [] c = "H2O2" -> << <<0, 1>>, <<1, 2>>, <<3, 2>> >>
      [] c = "CH2O" -> << <<0, 1>>, <<0, 2>>, <<0, 3>> >>
      [] c = "HC9N" -> ChainTuples(11, 2)

\* unique_molecule.angles
ChemAngles(c) ==
    CASE c = "H2O"  -> << <<1, 0, 2>> >>
      [] c = "H2O2" -> << <<0, 1, 2>>, <<1, 2, 3>> >>
      [] c = "CH2O" -> << <<1, 0, 2>>, <<1, 0, 3>>, <<2, 0, 3>> >>
      [] c = "HC9N" -> ChainTuples(11, 3)
      [] OTHER      -> <<>>

\* unique_molecule.propers
ChemPropers(c) ==
    CASE c = "H2O2" -> << <<0, 1, 2, 3>> >>
      [] c = "HC9N" -> ChainTuples(11, 4)
      [] OTHER      -> <<>>

\* unique_molecule.smirnoff_impropers: the trivalent centre is listed second,
\* once for every ordering of its three neighbours
ChemImpropers(c) ==
    CASE c = "CH2O" -> << <<1, 0, 2, 3>>, <<1, 0, 3, 2>>, <<2, 0, 1, 3>>,
                          <<2, 0, 3, 1>>, <<3, 0, 1, 2>>, <<3, 0, 2, 1>> >>
      [] OTHER      -> <<>>

\* The pairs of atoms three bonds apart
Chem14Pairs(c) ==
    CASE c = "H2O2" -> << <<0, 3>> >>
      [] c = "HC9N" -> [j \in 1..8 |-> <<j - 1, j + 2>>]
      [] OTHER      -> <<>>

\* The ways the enumerator may come upon the pairs: each pair once; each pair
\* twice, as the same tuple; each pair twice, from either end.
PairEnumerators == {"once", "repeated", "both_orders"}

\* _get_14_pairs(unique_molecule): the tuples of atoms it yields, in order
_get_14_pairs(c) ==
    CASE pair_enumerator = "once" -> Chem14Pairs(c)
      [] pair_enumerator = "repeated" -> Chem14Pairs(c) \o Chem14Pairs(c)
      [] pair_enumerator = "both_orders" ->
             Chem14Pairs(c)
             \o [j \in 1..Len(Chem14Pairs(c)) |-> Reversed(Chem14Pairs(c)[j])]

\* openff.units.elements SYMBOLS and MASSES (masses rounded to integers)
SYMBOLS(z) ==
    CASE z = 1 -> "H" [] z = 6 -> "C" [] z = 7 -> "N" [] z = 8 -> "O" [] z = 17 -> "Cl" [] z = 18 -> "Ar"

MASSES(z) ==
    CASE z = 1 -> 1 [] z = 6 -> 12 [] z = 7 -> 14 [] z = 8 -> 16 [] z = 17 -> 35 [] z = 18 -> 40

\* molecule.is_isomorphic_with(other)
is_isomorphic_with(m1, m2) == m1.chem = m2.chem

\* topology.n_atoms
RECURSIVE n_atoms(_)
n_atoms(top) == IF top = <<>> THEN 0 ELSE NAtoms(Head(top).chem) + n_atoms(Tail(top))

\* interchange.topology.atom_index(atom) for local atom a of the molecule with
\* Python index m: atoms are numbered molecule after molecule
atom_index(top, m, a) == n_atoms(SubSeq(top, 1, m)) + a

\* keys of interchange.topology.identical_molecule_groups: the Python index of
\* the first molecule of every isomorphism class, ascending
identical_molecule_groups(top) ==
    LET first(i) == \A j \in 1..(i - 1) : ~is_isomorphic_with(top[j], top[i])
        RECURSIVE scan(_)
        scan(i) == IF i > Len(top) THEN <<>>
                   ELSE (IF first(i) THEN <<i - 1>> ELSE <<>>) \o scan(i + 1)
    IN scan(1)

----------------------------------------------------------------------------
(* _convert, lines 35-65: the global settings.                              *)

\* str.lower() on the mixing rules the model draws from
lower(s) ==
    CASE s = "Lorentz-Berthelot" -> "lorentz-berthelot"
      [] s = "GEOMETRIC"         -> "geometric"
      [] s = "Geometric"         -> "geometric"
      [] OTHER                   -> s

\* The chain with the two codes exchanged.
combination_rule_swapped(_combination_rule) ==
    IF _combination_rule = "lorentz-berthelot" THEN 3
    ELSE IF _combination_rule = "geometric" THEN 2
    ELSE 0

\* the chain of if/elif/else on _combination_rule; 0 stands for the raise
combination_rule_of(_combination_rule) ==
    IF _combination_rule = "lorentz-berthelot" THEN 2
    ELSE IF _combination_rule = "geometric" THEN 3
    ELSE 0

\* Interchange.__getitem__: a missing collection is a lookup failure
getitem_error(coll, handler) == IF coll[handler].present THEN "" ELSE "LookupError"

\* The System as constructed at line 58, or the error raised before it.
new_system(coll) ==
    IF ~coll["vdW"].present
    THEN [err |-> "UnsupportedExportError"]
    ELSE IF combination_rule_of(lower(coll["vdW"].mixing_rule)) = 0
    THEN [err |-> "UnsupportedExportError"]
    ELSE IF getitem_error(coll, "Electrostatics") # ""
    THEN [err |-> getitem_error(coll, "Electrostatics")]
    ELSE [err |-> "",
          system |-> [name |-> "FOO",
                      nonbonded_function |-> 1,
                      combination_rule |->
                          combination_rule_of(lower(coll["vdW"].mixing_rule)),
                      gen_pairs |-> TRUE,
                      vdw_14 |-> coll["vdW"].scale_14,
                      coul_14 |-> coll["Electrostatics"].scale_14,
                      atom_types |-> <<>>,
                      molecule_types |-> <<>>,
                      molecules |-> <<>>]]

----------------------------------------------------------------------------
(* _convert, lines 83-112: naming of the unique molecules and atom typing.  *)

\* lines 86-87 and 117-118: an unnamed molecule is named after its index
name_molecule(top, m) ==
    IF top[m + 1].name = ""
    THEN [top EXCEPT ![m + 1].name = "MOL" \o ToString(m)]
    ELSE top

\* line 90: the type name of local atom a of a molecule
atom_type_name(molecule_name, a) == molecule_name \o ToString(a)

\* lines 93-110: the LennardJonesAtomType of topology atom a of molecule m
LennardJonesAtomType(top, coll, m, a) ==
    LET key == [atom_indices |-> <<atom_index(top, m, a)>>, mult |-> None]
        vdw_parameters == DictGet(coll["vdW"].potentials,
                                  DictGet(coll["vdW"].key_map, key))
    IN [kind |-> "LennardJonesAtomType",
        name |-> atom_type_name(top[m + 1].name, a),
        bonding_type |-> "",
        atomic_number |-> ChemAtoms(top[m + 1].chem)[a + 1],
        mass |-> MASSES(ChemAtoms(top[m + 1].chem)[a + 1]),
        charge |-> 0,
        particle_type |-> "A",
        sigma |-> vdw_parameters.sigma,
        epsilon |-> vdw_parameters.epsilon]

\* lines 89-112 for one molecule: atoms a, a+1, ... are typed in turn
RECURSIVE type_atoms(_, _, _, _, _)
type_atoms(top, coll, m, a, atom_types) ==
    IF a >= NAtoms(top[m + 1].chem) THEN atom_types
    ELSE type_atoms(top, coll, m, a + 1,
                    DictSet(atom_types, atom_type_name(top[m + 1].name, a),
                            LennardJonesAtomType(top, coll, m, a)))

\* lines 83-112: the first loop over the unique molecules still in uniq.
\* Returns the topology (molecules renamed) and system.atom_types.
RECURSIVE first_loop(_, _, _, _)
first_loop(top, coll, uniq, atom_types) ==
    IF uniq = <<>> THEN [top |-> top, atom_types |-> atom_types]
    ELSE LET named == name_molecule(top, Head(uniq))
         IN first_loop(named, coll, Tail(uniq),
                       type_atoms(named, coll, Head(uniq), 0, atom_types))

----------------------------------------------------------------------------
(* _convert, lines 122-175: the atoms and the 1-4 pairs of one molecule.    *)

\* An atom record whose residue name is the molecule's name, whatever the
\* atom's metadata holds.
GROMACSAtom_named_after_molecule(top, m, a, resname) ==
    [index |-> a + 1,
     name |-> SYMBOLS(ChemAtoms(top[m + 1].chem)[a + 1]),
     atom_type |-> atom_type_name(top[m + 1].name, a),
     residue_index |-> m + 1,
     residue_name |-> top[m + 1].name,
     charge_group_number |-> 1,
     charge |-> 0,
     mass |-> MASSES(ChemAtoms(top[m + 1].chem)[a + 1])]

\* lines 137-158: the GROMACSAtom built from local atom a of molecule m, whose
\* atoms' residue names are resname at that moment
GROMACSAtom(top, m, a, resname) ==
    [index |-> a + 1,
     name |-> SYMBOLS(ChemAtoms(top[m + 1].chem)[a + 1]),
     atom_type |-> atom_type_name(top[m + 1].name, a),
     residue_index |-> m + 1,
     residue_name |-> resname[a + 1],
     charge_group_number |-> 1,
     charge |-> 0,
     mass |-> MASSES(ChemAtoms(top[m + 1].chem)[a + 1])]

\* The atom the loop variable `atom` is bound to when line 137 is reached in
\* the iteration over position i: the inner loop of lines 134-135 uses the same
\* variable and leaves it bound to the last atom of the molecule.
atom_after_residue_check(top, m, i, filled) ==
    IF filled THEN NAtoms(top[m + 1].chem) - 1 ELSE i

\* lines 122-158 from position i of the outer loop on. resname is the
\* residue_name metadata of the molecule's atoms, atoms the records appended.
RECURSIVE atoms_loop(_, _, _, _, _)
atoms_loop(top, m, i, resname, atoms) ==
    IF i >= NAtoms(top[m + 1].chem)
    THEN [err |-> "", resname |-> resname, atoms |-> atoms]
    ELSE LET unique_residue_names == {resname[j] : j \in 1..Len(resname)}
             filled == None \in unique_residue_names
             resname2 == IF filled
                         THEN [j \in 1..Len(resname) |-> top[m + 1].name]
                         ELSE resname
             atom == atom_after_residue_check(top, m, i, filled)
         IN IF None \in unique_residue_names /\ Cardinality(unique_residue_names) > 1
            THEN [err |-> "NotImplementedError", resname |-> resname, atoms |-> atoms]
            ELSE atoms_loop(top, m, i + 1, resname2,
                            Append(atoms, GROMACSAtom(top, m, atom, resname2)))

\* line 161: {*_get_14_pairs(unique_molecule)}, a set of tuples of atoms, read
\* here in the order of first occurrence
RECURSIVE dedup(_, _)
dedup(s, seen) ==
    IF s = <<>> THEN <<>>
    ELSE IF Head(s) \in seen THEN dedup(Tail(s), seen)
    ELSE <<Head(s)>> \o dedup(Tail(s), seen \cup {Head(s)})

\* The loop without the test of the flag: a pair record for every pair.
RECURSIVE pairs_loop_unconditional(_, _, _)
pairs_loop_unconditional(pairs, gen_pairs, out) ==
    IF pairs = <<>> THEN [err |-> "", pairs |-> out]
    ELSE LET molecule_indices == Sorted2(Head(pairs)[1], Head(pairs)[2])
         IN pairs_loop_unconditional(Tail(pairs), gen_pairs,
                                     Append(out, [atom1 |-> molecule_indices[1] + 1,
                                                  atom2 |-> molecule_indices[2] + 1]))

\* lines 163-175: one GROMACSPair per pair of the set, local indices sorted
RECURSIVE pairs_loop(_, _, _)
pairs_loop(pairs, gen_pairs, out) ==
    IF pairs = <<>> THEN [err |-> "", pairs |-> out]
    ELSE LET molecule_indices == Sorted2(Head(pairs)[1], Head(pairs)[2])
         IN IF gen_pairs
            THEN pairs_loop(Tail(pairs), gen_pairs,
                            Append(out, [atom1 |-> molecule_indices[1] + 1,
                                         atom2 |-> molecule_indices[2] + 1]))
            ELSE [err |-> "NotImplementedError", pairs |-> out]

----------------------------------------------------------------------------
(* _convert_bonds and _convert_angles.                                      *)

\* A match that tries the forward order only.
bond_key_matches_forward_only(atom_indices, topology_indices) ==
    atom_indices = topology_indices

\* lines 218-225: a key matches the sorted topology indices forwards or reversed
bond_key_matches(atom_indices, topology_indices) ==
    \/ atom_indices = topology_indices
    \/ atom_indices = Reversed(topology_indices)

\* lines 207-244 for the bonds still in bonds
RECURSIVE _convert_bonds(_, _, _, _, _)
_convert_bonds(top, coll, m, bonds, out) ==
    IF bonds = <<>> THEN [err |-> "", at |-> <<>>, bonds |-> out]
    ELSE LET bond == Head(bonds)
             molecule_indices == Sorted2(bond[1], bond[2])
             topology_indices == Sorted2(atom_index(top, m, bond[1]),
                                         atom_index(top, m, bond[2]))
             key_map == coll["Bonds"].key_map
             hit == FirstIndex([j \in 1..Len(key_map) |->
                        bond_key_matches(key_map[j].key.atom_indices, topology_indices)])
         IN IF hit = 0
            THEN [err |-> "MissingBondError", at |-> topology_indices, bonds |-> out]
            ELSE LET params == DictGet(coll["Bonds"].potentials, key_map[hit].val)
                 IN _convert_bonds(top, coll, m, Tail(bonds),
                        Append(out, [atom1 |-> molecule_indices[1] + 1,
                                     atom2 |-> molecule_indices[2] + 1,
                                     function |-> 1,
                                     length |-> params.length,
                                     k |-> params.k]))

\* line 261: a key matches the angle's topology indices in forward order only
angle_key_matches(atom_indices, topology_indices) ==
    atom_indices = topology_indices

\* lines 254-283 for the angles still in angles
RECURSIVE _convert_angles(_, _, _, _, _)
_convert_angles(top, coll, m, angles, out) ==
    IF angles = <<>> THEN [err |-> "", at |-> <<>>, angles |-> out]
    ELSE LET angle == Head(angles)
             topology_indices == [i \in 1..3 |-> atom_index(top, m, angle[i])]
             molecule_indices == angle
             key_map == coll["Angles"].key_map
             hit == FirstIndex([j \in 1..Len(key_map) |->
                        angle_key_matches(key_map[j].key.atom_indices, topology_indices)])
         IN IF hit = 0
            THEN [err |-> "MissingAngleError", at |-> topology_indices, angles |-> out]
            ELSE LET params == DictGet(coll["Angles"].potentials, key_map[hit].val)
                 IN _convert_angles(top, coll, m, Tail(angles),
                        Append(out, [atom1 |-> molecule_indices[1] + 1,
                                     atom2 |-> molecule_indices[2] + 1,
                                     atom3 |-> molecule_indices[3] + 1,
                                     angle |-> params.angle,
                                     k |-> params.k]))

----------------------------------------------------------------------------
(* _convert_dihedrals.                                                      *)

\* lines 311-319 (and 339-347, 388-396): all four indices equal, in order
torsion_key_matches(atom_indices, indices_to_match) ==
    /\ atom_indices[1] = indices_to_match[1]
    /\ atom_indices[2] = indices_to_match[2]
    /\ atom_indices[3] = indices_to_match[3]
    /\ atom_indices[4] = indices_to_match[4]
    /\ atom_indices = indices_to_match

\* A divisor that is never read from the parameter.
proper_idivf_ignored(params) == 1

\* line 323: idivf of a proper torsion parameter, 1 when it has none
proper_idivf(params) == IF "idivf" \in DOMAIN params THEN params.idivf ELSE 1

\* lines 325-335
PeriodicProperDihedral(molecule_indices, params) ==
    [kind |-> "PeriodicProperDihedral",
     atom1 |-> molecule_indices[1] + 1,
     atom2 |-> molecule_indices[2] + 1,
     atom3 |-> molecule_indices[3] + 1,
     atom4 |-> molecule_indices[4] + 1,
     phi |-> params.phase,
     k |-> params.k \div proper_idivf(params),
     multiplicity |-> params.periodicity]

\* A Ryckaert-Bellemans record built as a dihedral of the base class.
RyckaertBellemansDihedral_base_class(molecule_indices, params) ==
    [kind |-> "GROMACSDihedral",
     atom1 |-> molecule_indices[1] + 1,
     atom2 |-> molecule_indices[2] + 1,
     atom3 |-> molecule_indices[3] + 1,
     atom4 |-> molecule_indices[4] + 1,
     c0 |-> params.C0, c1 |-> params.C1, c2 |-> params.C2,
     c3 |-> params.C3, c4 |-> params.C4, c5 |-> params.C5]

\* lines 351-364
RyckaertBellemansDihedral(molecule_indices, params) ==
    [kind |-> "RyckaertBellemansDihedral",
     atom1 |-> molecule_indices[1] + 1,
     atom2 |-> molecule_indices[2] + 1,
     atom3 |-> molecule_indices[3] + 1,
     atom4 |-> molecule_indices[4] + 1,
     c0 |-> params.C0, c1 |-> params.C1, c2 |-> params.C2,
     c3 |-> params.C3, c4 |-> params.C4, c5 |-> params.C5]

\* An improper record that keeps the adapter's order, centre second.
PeriodicImproperDihedral_adapter_order(molecule_indices, params) ==
    [kind |-> "PeriodicImproperDihedral",
     atom1 |-> molecule_indices[1] + 1,
     atom2 |-> molecule_indices[2] + 1,
     atom3 |-> molecule_indices[3] + 1,
     atom4 |-> molecule_indices[4] + 1,
     phi |-> params.phase,
     k |-> params.k \div params.idivf,
     multiplicity |-> params.periodicity]

\* lines 402-412: the record of an improper the adapter lists as
\* molecule_indices, centre second
PeriodicImproperDihedral(molecule_indices, params) ==
    [kind |-> "PeriodicImproperDihedral",
     atom1 |-> molecule_indices[2] + 1,
     atom2 |-> molecule_indices[1] + 1,
     atom3 |-> molecule_indices[3] + 1,
     atom4 |-> molecule_indices[4] + 1,
     phi |-> params.phase,
     k |-> params.k \div params.idivf,
     multiplicity |-> params.periodicity]

\* lines 375-380: the tuple an improper is matched with, centre first
improper_indices_to_match(topology_indices) ==
    <<topology_indices[2], topology_indices[1], topology_indices[3], topology_indices[4]>>

\* `for top_key in handler.key_map` from entry i on: the potential keys of
\* the entries whose atom indices match, in key-map order
RECURSIVE matching_keys(_, _, _)
matching_keys(key_map, i, indices_to_match) ==
    IF i > Len(key_map) THEN <<>>
    ELSE (IF torsion_key_matches(key_map[i].key.atom_indices, indices_to_match)
          THEN <<key_map[i].val>> ELSE <<>>)
         \o matching_keys(key_map, i + 1, indices_to_match)

\* The dihedral record of the given class.
make_dihedral(kind, molecule_indices, params) ==
    CASE kind = "PeriodicProperDihedral" ->
             PeriodicProperDihedral(molecule_indices, params)
      [] kind = "RyckaertBellemansDihedral" ->
             RyckaertBellemansDihedral(molecule_indices, params)
      [] kind = "PeriodicImproperDihedral" ->
             PeriodicImproperDihedral(molecule_indices, params)

\* One pass over a torsion handler's key map: out extended by a record of the
\* given class for every matching entry.
scan_key_map(handler, indices_to_match, molecule_indices, kind, out) ==
    LET hits == matching_keys(handler.key_map, 1, indices_to_match)
    IN out \o [j \in 1..Len(hits) |->
                  make_dihedral(kind, molecule_indices,
                                DictGet(handler.potentials, hits[j]))]

\* A loop that looks at the Ryckaert-Bellemans handler only when there is no
\* ProperTorsions handler (elif in place of the second if).
RECURSIVE propers_loop_elif(_, _, _, _, _)
propers_loop_elif(top, coll, m, propers, out) ==
    IF propers = <<>> THEN out
    ELSE LET topology_indices == [i \in 1..4 |-> atom_index(top, m, Head(propers)[i])]
             molecule_indices == Head(propers)
             next == IF coll["ProperTorsions"].present
                     THEN scan_key_map(coll["ProperTorsions"], topology_indices,
                                       molecule_indices, "PeriodicProperDihedral", out)
                     ELSE IF coll["RBTorsions"].present
                     THEN scan_key_map(coll["RBTorsions"], topology_indices,
                                       molecule_indices, "RyckaertBellemansDihedral", out)
                     ELSE out
         IN propers_loop_elif(top, coll, m, Tail(propers), next)

\* lines 305-364 for the propers still in propers
RECURSIVE propers_loop(_, _, _, _, _)
propers_loop(top, coll, m, propers, out) ==
    IF propers = <<>> THEN out
    ELSE LET topology_indices == [i \in 1..4 |-> atom_index(top, m, Head(propers)[i])]
             molecule_indices == Head(propers)
             periodic == IF coll["ProperTorsions"].present
                         THEN scan_key_map(coll["ProperTorsions"], topology_indices,
                                           molecule_indices, "PeriodicProperDihedral", out)
                         ELSE out
             rb == IF coll["RBTorsions"].present
                   THEN scan_key_map(coll["RBTorsions"], topology_indices,
                                     molecule_indices, "RyckaertBellemansDihedral", periodic)
                   ELSE periodic
         IN propers_loop(top, coll, m, Tail(propers), rb)

\* lines 369-412 for the impropers still in impropers
RECURSIVE impropers_loop(_, _, _, _, _)
impropers_loop(top, coll, m, impropers, out) ==
    IF impropers = <<>> THEN out
    ELSE LET topology_indices == [i \in 1..4 |-> atom_index(top, m, Head(impropers)[i])]
             molecule_indices == Head(impropers)
         IN impropers_loop(top, coll, m, Tail(impropers),
                scan_key_map(coll["ImproperTorsions"],
                             improper_indices_to_match(topology_indices),
                             molecule_indices, "PeriodicImproperDihedral", out))

\* lines 286-412: molecule.dihedrals
_convert_dihedrals(top, coll, m) ==
    LET proper == propers_loop(top, coll, m, ChemPropers(top[m + 1].chem), <<>>)
    IN IF coll["ImproperTorsions"].present
       THEN impropers_loop(top, coll, m, ChemImpropers(top[m + 1].chem), proper)
       ELSE proper

----------------------------------------------------------------------------
(* _convert, lines 114-197: the second loop and the whole function.         *)

\* lines 186-192: the number of topology molecules isomorphic to molecule m
n_isomorphic(top, m) ==
    Cardinality({i \in 1..Len(top) : is_isomorphic_with(top[i], top[m + 1])})

\* lines 114-192 for the unique molecules still in uniq. Returns the error
\* raised (if any, with the indices it names), the topology as the loop left
\* it and the system.
RECURSIVE second_loop(_, _, _, _)
second_loop(top, coll, uniq, system) ==
    IF uniq = <<>> THEN [err |-> "", at |-> <<>>, top |-> top, system |-> system]
    ELSE LET m == Head(uniq)
             named == name_molecule(top, m)
             chem == named[m + 1].chem
             a == atoms_loop(named, m, 0, named[m + 1].resname, <<>>)
             top2 == [named EXCEPT ![m + 1].resname = a.resname]
             p == pairs_loop(dedup(_get_14_pairs(chem), {}), system.gen_pairs, <<>>)
             b == _convert_bonds(top2, coll, m, ChemBonds(chem), <<>>)
             g == _convert_angles(top2, coll, m, ChemAngles(chem), <<>>)
             molecule == [name |-> named[m + 1].name,
                          nrexcl |-> 3,
                          atoms |-> a.atoms,
                          pairs |-> p.pairs,
                          bonds |-> b.bonds,
                          angles |-> g.angles,
                          dihedrals |-> _convert_dihedrals(top2, coll, m),
                          settles |-> <<>>,
                          exclusions |-> <<>>]
             failed(e, at) == [err |-> e, at |-> at, top |-> top2, system |-> system]
         IN IF a.err # "" THEN failed(a.err, <<>>)
            ELSE IF p.err # "" THEN failed(p.err, <<>>)
            ELSE IF b.err # "" THEN failed(b.err, b.at)
            ELSE IF g.err # "" THEN failed(g.err, g.at)
            ELSE second_loop(top2, coll, Tail(uniq),
                    [system EXCEPT
                        !.molecule_types = DictSet(@, molecule.name, molecule),
                        !.molecules = DictSet(@, molecule.name, n_isomorphic(top2, m))])

\* _convert(interchange): the outcome (err = "" and the System returned, or
\* the error raised) and the topology the call leaves behind.
_convert(top, coll) ==
    LET s0 == new_system(coll)
        uniq == identical_molecule_groups(top)
        f == first_loop(top, coll, uniq, <<>>)
        s == second_loop(f.top, coll, uniq,
                         [s0.system EXCEPT !.atom_types = f.atom_types])
    IN IF s0.err # ""
       THEN [err |-> s0.err, at |-> <<>>, top |-> top]
       ELSE IF s.err # ""
       THEN [err |-> s.err, at |-> s.at, top |-> s.top]
       ELSE [err |-> "", at |-> <<>>, top |-> s.top, system |-> s.system]

----------------------------------------------------------------------------
(* GROMACSWriter: the text of the .top file as a sequence of lines. A line  *)
(* is a header ("[ atoms ]"), a ';' comment, a record (its fields in        *)
(* order) or a blank line.                                                  *)

header(text) == [kind |-> "header", text |-> text]

comment(text) == [kind |-> "comment", text |-> text]

record(section, fields) == [kind |-> "record", section |-> section, fields |-> fields]

blank == [kind |-> "blank"]

\* str.replace(' ', '_') on the names the model draws from
replace_space(s) ==
    CASE s = "A B" -> "A_B"
      [] OTHER     -> s

\* lines 32-43
_write_defaults(system) ==
    <<header("[ defaults ]"),
      comment("; nbfunc comb-rule gen-pairs fudgeLJ fudgeQQ"),
      record("defaults", <<system.nonbonded_function, system.combination_rule,
                           IF system.gen_pairs THEN "yes" ELSE "no",
                           system.vdw_14, system.coul_14>>),
      blank>>

\* lines 45-67: err is set when an atom type is not a LennardJonesAtomType;
\* the lines written before the raise stay written
_write_atomtypes(system) ==
    LET types == [i \in 1..Len(system.atom_types) |-> system.atom_types[i].val]
        stop == FirstIndex([i \in 1..Len(types) |->
                               types[i].kind # "LennardJonesAtomType"])
        n == IF stop = 0 THEN Len(types) ELSE stop - 1
        head == <<header("[ atomtypes ]"),
                  comment(";type, bondingtype, atomic_number, mass, charge, ptype, sigma, epsilon")>>
        body == [i \in 1..n |->
                    record("atomtypes", <<types[i].name, types[i].atomic_number,
                                          types[i].mass, types[i].charge,
                                          types[i].particle_type, types[i].sigma,
                                          types[i].epsilon>>)]
    IN IF stop = 0
       THEN [err |-> "", lines |-> head \o body \o <<blank>>]
       ELSE [err |-> "NotImplementedError", lines |-> head \o body]

\* lines 88-104
_write_atoms(molecule_type) ==
    <<header("[ atoms ]"),
      comment(";index, atom type, resnum, resname, name, cgnr, charge, mass")>>
    \o [i \in 1..Len(molecule_type.atoms) |->
           LET atom == molecule_type.atoms[i]
           IN record("atoms", <<atom.index, atom.atom_type, atom.residue_index,
                                atom.residue_name, atom.name,
                                atom.charge_group_number, atom.charge, atom.mass>>)]
    \o <<blank>>

\* lines 106-117
_write_pairs(molecule_type) ==
    <<header("[ pairs ]"), comment(";ai    aj   funct")>>
    \o [i \in 1..Len(molecule_type.pairs) |->
           record("pairs", <<molecule_type.pairs[i].atom1,
                             molecule_type.pairs[i].atom2, 1>>)]
    \o <<blank>>

\* lines 119-136
_write_bonds(molecule_type) ==
    <<header("[ bonds ]"), comment(";ai    aj   funct r k")>>
    \o [i \in 1..Len(molecule_type.bonds) |->
           LET bond == molecule_type.bonds[i]
           IN record("bonds", <<bond.atom1, bond.atom2, 1, bond.length, bond.k>>)]
    \o <<blank>>

\* lines 138-156
_write_angles(molecule_type) ==
    <<header("[ angles ]"), comment(";ai    aj   ak   funct theta  k")>>
    \o [i \in 1..Len(molecule_type.angles) |->
           LET angle == molecule_type.angles[i]
           IN record("angles", <<angle.atom1, angle.atom2, angle.atom3, 1,
                                 angle.angle, angle.k>>)]
    \o <<blank>>

\* lines 162-166: the functions dict; 0 stands for a type that is not a key
dihedral_function(dihedral) ==
    CASE dihedral.kind = "PeriodicProperDihedral"    -> 1
      [] dihedral.kind = "RyckaertBellemansDihedral" -> 3
      [] dihedral.kind = "PeriodicImproperDihedral"  -> 4
      [] OTHER                                       -> 0

\* lines 171-199: the line of one dihedral whose type is a key of functions
dihedral_line(dihedral) ==
    LET function == dihedral_function(dihedral)
        atoms == <<dihedral.atom1, dihedral.atom2, dihedral.atom3, dihedral.atom4,
                   function>>
    IN IF function \in {1, 4}
       THEN record("dihedrals", atoms \o <<dihedral.phi, dihedral.k,
                                           dihedral.multiplicity>>)
       ELSE record("dihedrals", atoms \o <<dihedral.c0, dihedral.c1, dihedral.c2,
                                           dihedral.c3, dihedral.c4, dihedral.c5>>)

\* lines 158-201: functions[type(dihedral)] at line 169 is a KeyError for a
\* type outside the dict, before the else branch of line 196 can be taken
_write_dihedrals(molecule_type) ==
    LET ds == molecule_type.dihedrals
        stop == FirstIndex([i \in 1..Len(ds) |-> dihedral_function(ds[i]) = 0])
        n == IF stop = 0 THEN Len(ds) ELSE stop - 1
        head == <<header("[ dihedrals ]"), comment(";ai    aj   ak   al   funct phi  k")>>
        body == [i \in 1..n |-> dihedral_line(ds[i])]
    IN IF stop = 0
       THEN [err |-> "", lines |-> head \o body \o <<blank>>]
       ELSE [err |-> "KeyError", lines |-> head \o body]

\* lines 220-234
_write_settles(molecule_type) ==
    <<header("[ settles ]"), comment(";i  funct   dOH  dHH")>>
    \o [i \in 1..Len(molecule_type.settles) |->
           LET settle == molecule_type.settles[i]
           IN record("settles", <<settle.first_atom, 1,
                                  settle.oxygen_hydrogen_distance,
                                  settle.hydrogen_hydrogen_distance>>)]
    \o <<blank>>

\* lines 203-218
_write_exclusions(molecule_type) ==
    <<header("[ exclusions ]"), comment(";ai    aj")>>
    \o [i \in 1..Len(molecule_type.exclusions) |->
           record("exclusions", <<molecule_type.exclusions[i].first_atom>>
                                \o molecule_type.exclusions[i].other_atoms)]
    \o <<blank>>

\* lines 71-84: one pass of the loop body, for one molecule type
_write_moleculetype(molecule_name, molecule_type) ==
    LET d == _write_dihedrals(molecule_type)
        upto == <<header("[ moleculetype ]"),
                  record("moleculetype", <<replace_space(molecule_name),
                                           molecule_type.nrexcl>>),
                  blank>>
                \o _write_atoms(molecule_type)
                \o _write_pairs(molecule_type)
                \o _write_bonds(molecule_type)
                \o _write_angles(molecule_type)
                \o d.lines
    IN IF d.err # ""
       THEN [err |-> d.err, lines |-> upto]
       ELSE [err |-> "",
             lines |-> upto \o _write_settles(molecule_type)
                            \o _write_exclusions(molecule_type)]

\* lines 69-86, from entry i of system.molecule_types on
RECURSIVE _write_moleculetypes(_, _)
_write_moleculetypes(system, i) ==
    IF i > Len(system.molecule_types) THEN [err |-> "", lines |-> <<blank>>]
    ELSE LET one == _write_moleculetype(system.molecule_types[i].key,
                                        system.molecule_types[i].val)
             rest == _write_moleculetypes(system, i + 1)
         IN IF one.err # "" THEN one
            ELSE [err |-> rest.err, lines |-> one.lines \o rest.lines]

\* lines 236-242
_write_system(system) ==
    <<header("[ system ]"), comment(";name"), record("system", <<system.name>>), blank>>

\* lines 244-251
_write_molecules(system) ==
    <<header("[ molecules ]"), comment(";name number")>>
    \o [i \in 1..Len(system.molecules) |->
           record("molecules", <<replace_space(system.molecules[i].key),
                                 system.molecules[i].val>>)]
    \o <<blank>>

\* lines 24-30: the body of the with block of to_top
to_top_body(system) ==
    LET t == _write_atomtypes(system)
        m == _write_moleculetypes(system, 1)
    IN IF t.err # ""
       THEN [err |-> t.err, lines |-> _write_defaults(system) \o t.lines]
       ELSE IF m.err # ""
       THEN [err |-> m.err, lines |-> _write_defaults(system) \o t.lines \o m.lines]
       ELSE [err |-> "",
             lines |-> _write_defaults(system) \o t.lines \o m.lines
                       \o _write_system(system) \o _write_molecules(system)]

\* The methods of GROMACSWriter that take the stream and write whole sections.
SectionMethods ==
    {"_write_defaults", "_write_atomtypes", "_write_moleculetypes",
     "_write_system", "_write_molecules"}

\* lines 32-86 and 236-251: what writer.<method>(top) writes for a writer
\* holding system, and the error it ends in
section_method(method, system) ==
    CASE method = "_write_defaults" ->
             [err |-> "", lines |-> _write_defaults(system)]
      [] method = "_write_atomtypes" -> _write_atomtypes(system)
      [] method = "_write_moleculetypes" -> _write_moleculetypes(system, 1)
      [] method = "_write_system" ->
             [err |-> "", lines |-> _write_system(system)]
      [] method = "_write_molecules" ->
             [err |-> "", lines |-> _write_molecules(system)]

\* lines 17-19: the fields a GROMACSWriter has
GROMACSWriterFields == {"system", "top_file", "gro_file"}

\* line 23: the attribute to_top passes to open()
to_top_path_attribute == "file"

\* lines 21-30: GROMACSWriter.to_top on writer w. Reading an attribute that is
\* no field of the model raises AttributeError before open() is called.
to_top_of(w) ==
    IF to_top_path_attribute \notin GROMACSWriterFields
    THEN [w EXCEPT !.called = TRUE, !.err = "AttributeError"]
    ELSE LET out == to_top_body(w.system)
         IN [w EXCEPT !.called = TRUE,
                      !.err = out.err,
                      !.opened = Append(@, w[to_top_path_attribute]),
                      !.lines = out.lines]

----------------------------------------------------------------------------
(* The Interchange objects the model starts from: a topology and the        *)
(* handlers' key maps and potentials, as the parameter adapter stores them. *)

\* A toolkit Molecule of chemistry c named n whose atoms carry a residue_name
\* in their metadata for all atoms (each its own), for none, or for the first
\* atom only.
Molecule(c, n, residues) ==
    [chem |-> c,
     name |-> n,
     resname |-> [j \in 1..NAtoms(c) |->
                     IF residues = "all" \/ (residues = "partial" /\ j = 1)
                     THEN "RES" \o ToString(j) ELSE None]]

\* The topologies of 1..n molecules drawn from the given chemistries and names.
Topologies(n, chems, names, residues) ==
    UNION {[1..k -> {Molecule(c, nm, residues) : c \in chems, nm \in names}] : k \in 1..n}

TopologyKey(atom_indices, mult) == [atom_indices |-> atom_indices, mult |-> mult]

PotentialKey(id, mult) == [id |-> id, mult |-> mult]

\* A key map holding, for every molecule of the topology and every tuple j of
\* items[chemistry], terms entries keyed by the tuple's topology indices.
key_map_for(top, items, id, terms) ==
    Flatten([q \in 1..Len(top) |->
        Flatten([j \in 1..Len(items[top[q].chem]) |->
            [t \in 1..terms |->
                [key |-> TopologyKey(
                            [i \in 1..Len(items[top[q].chem][j]) |->
                                atom_index(top, q - 1, items[top[q].chem][j][i])],
                            IF terms = 1 THEN None ELSE t - 1),
                 val |-> PotentialKey(id \o ToString(j),
                                      IF terms = 1 THEN None ELSE t - 1)]]])])

\* The potentials of a handler: params[j][t] under the potential key of term t
\* of tuple j, for every potential key the key maps can hold.
potentials_for(id, terms, params) ==
    Flatten([j \in 1..Len(params) |->
        [t \in 1..terms |->
            [key |-> PotentialKey(id \o ToString(j), IF terms = 1 THEN None ELSE t - 1),
             val |-> params[j][t]]]])

\* Every chemistry without tuples of some class.
NoItems == [c \in Chems |-> <<>>]

vdWCollection(top, present, mixing_rule) ==
    LET atoms == [c \in Chems |-> [a \in 1..NAtoms(c) |-> <<a - 1>>]]
        params == [j \in 1..11 |-> <<[sigma |-> j, epsilon |-> 10 * j]>>]
    IN [present |-> present,
        mixing_rule |-> mixing_rule,
        scale_14 |-> 500,
        key_map |-> key_map_for(top, atoms, "v", 1),
        potentials |-> potentials_for("v", 1, params)]

ElectrostaticsCollection(present) == [present |-> present, scale_14 |-> 833]

BondModes == {"sorted", "reversed", "first_only", "empty"}

BondsCollection(top, mode) ==
    LET sorted == [c \in Chems |->
                      [j \in 1..Len(ChemBonds(c)) |->
                          Sorted2(ChemBonds(c)[j][1], ChemBonds(c)[j][2])]]
        reversed == [c \in Chems |->
                        [j \in 1..Len(ChemBonds(c)) |-> Reversed(sorted[c][j])]]
        first_only == [c \in Chems |-> SubSeq(sorted[c], 1, 1)]
        params == [j \in 1..10 |-> <<[length |-> j, k |-> 100 * j]>>]
    IN [present |-> TRUE,
        key_map |-> CASE mode = "sorted"     -> key_map_for(top, sorted, "b", 1)
                      [] mode = "reversed"   -> key_map_for(top, reversed, "b", 1)
                      [] mode = "first_only" -> key_map_for(top, first_only, "b", 1)
                      [] mode = "empty"      -> key_map_for(top, NoItems, "b", 1),
        potentials |-> potentials_for("b", 1, params)]

AngleModes == {"forward", "reversed", "empty"}

AnglesCollection(top, mode) ==
    LET forward == [c \in Chems |-> ChemAngles(c)]
        reversed == [c \in Chems |->
                        [j \in 1..Len(ChemAngles(c)) |-> Reversed(ChemAngles(c)[j])]]
        params == [j \in 1..9 |-> <<[angle |-> 100 + j, k |-> 50 * j]>>]
    IN [present |-> TRUE,
        key_map |-> CASE mode = "forward"  -> key_map_for(top, forward, "a", 1)
                      [] mode = "reversed" -> key_map_for(top, reversed, "a", 1)
                      [] mode = "empty"    -> key_map_for(top, NoItems, "a", 1),
        potentials |-> potentials_for("a", 1, params)]

ProperModes == {"absent", "empty", "forward", "two_terms", "reversed"}

\* The second term of a two-term torsion carries no idivf.
ProperTorsionsCollection(top, mode) ==
    LET forward == [c \in Chems |-> ChemPropers(c)]
        reversed == [c \in Chems |->
                        [j \in 1..Len(ChemPropers(c)) |-> Reversed(ChemPropers(c)[j])]]
        params == [j \in 1..8 |->
                      <<[phase |-> 180, k |-> 12 * j, periodicity |-> 2, idivf |-> 4],
                        [phase |-> 0, k |-> 5 * j, periodicity |-> 3]>>]
        terms == IF mode = "two_terms" THEN 2 ELSE 1
    IN [present |-> mode # "absent",
        key_map |-> CASE mode \in {"forward", "two_terms"} ->
                             key_map_for(top, forward, "t", terms)
                      [] mode = "reversed" -> key_map_for(top, reversed, "t", terms)
                      [] OTHER             -> key_map_for(top, NoItems, "t", terms),
        potentials |-> potentials_for("t", terms, params)]

RBModes == {"absent", "forward"}

RBTorsionsCollection(top, mode) ==
    LET forward == [c \in Chems |-> ChemPropers(c)]
        params == [j \in 1..8 |-> <<[C0 |-> j, C1 |-> j + 1, C2 |-> j + 2,
                                     C3 |-> j + 3, C4 |-> j + 4, C5 |-> j + 5]>>]
    IN [present |-> mode # "absent",
        key_map |-> IF mode = "forward" THEN key_map_for(top, forward, "r", 1)
                    ELSE key_map_for(top, NoItems, "r", 1),
        potentials |-> potentials_for("r", 1, params)]

ImproperModes == {"absent", "empty", "central_first", "adapter_order"}

\* The improper handler keys a trivalent centre c with neighbours x, y, z by
\* (c, x, y, z), (c, y, z, x) and (c, z, x, y).
ImproperTorsionsCollection(top, mode) ==
    LET cyclic(t) == <<t, <<t[1], t[3], t[4], t[2]>>, <<t[1], t[4], t[2], t[3]>> >>
        central_first ==
            [c \in Chems |->
                IF ChemImpropers(c) = <<>> THEN <<>>
                ELSE cyclic(improper_indices_to_match(ChemImpropers(c)[1]))]
        adapter_order ==
            [c \in Chems |->
                [j \in 1..Len(central_first[c]) |->
                    improper_indices_to_match(central_first[c][j])]]
        params == [j \in 1..3 |->
                      <<[phase |-> 180, k |-> 9 * j, periodicity |-> 2, idivf |-> 3]>>]
    IN [present |-> mode # "absent",
        key_map |-> CASE mode = "central_first" -> key_map_for(top, central_first, "i", 1)
                      [] mode = "adapter_order" -> key_map_for(top, adapter_order, "i", 1)
                      [] OTHER                  -> key_map_for(top, NoItems, "i", 1),
        potentials |-> potentials_for("i", 1, params)]

MixingRules == {"Lorentz-Berthelot", "lorentz-berthelot", "geometric", "GEOMETRIC",
                "Geometric", "arithmetic", ""}

Collections(top, vdw, mixing_rule, electrostatics, bonds, angles, propers, rb, impropers) ==
    [vdW |-> vdWCollection(top, vdw, mixing_rule),
     Electrostatics |-> ElectrostaticsCollection(electrostatics),
     Bonds |-> BondsCollection(top, bonds),
     Angles |-> AnglesCollection(top, angles),
     ProperTorsions |-> ProperTorsionsCollection(top, propers),
     RBTorsions |-> RBTorsionsCollection(top, rb),
     ImproperTorsions |-> ImproperTorsionsCollection(top, impropers)]

\* A GROMACSWriter not yet built.
NoWriter ==
    [system |-> <<>>, top_file |-> "out.top", gro_file |-> "out.gro",
     built |-> FALSE, called |-> FALSE, err |-> "", opened |-> <<>>, lines |-> <<>>]

\* A text stream nothing was written to, and no writer it was handed to.
NoStream == [system |-> <<>>, calls |-> <<>>, lines |-> <<>>, err |-> ""]

\* A dihedral of the base class, which is none of the three variants.
GROMACSDihedral == [kind |-> "GROMACSDihedral", atom1 |-> 1, atom2 |-> 2,
                    atom3 |-> 3, atom4 |-> 4]

\* The Systems a writer is built on after _convert returned system: the
\* System as returned, and the System with a base-class dihedral appended to
\* the dihedrals of its first molecule type.
WriterSystems(system) ==
    {system,
     [system EXCEPT !.molecule_types[1].val.dihedrals = Append(@, GROMACSDihedral)]}

\* Fully parameterised systems: the topology, the names and the residue
\* metadata vary.
InitTopology ==
    /\ topology \in UNION {Topologies(MaxMols, {"Ar", "HCl"}, {"", "A", "MOL1"}, r) :
                              r \in {"none", "all", "partial"}}
    /\ collections = Collections(topology, TRUE, "Lorentz-Berthelot", TRUE,
                                 "sorted", "forward", "forward", "absent", "central_first")

\* One or two unnamed molecules with bonded terms: the bond and angle key
\* maps vary.
InitBonded ==
    /\ topology \in Topologies(2, {"H2O", "H2O2", "CH2O"}, {""}, "none")
    /\ \E b \in BondModes, a \in AngleModes :
          collections = Collections(topology, TRUE, "lorentz-berthelot", TRUE,
                                    b, a, "forward", "absent", "central_first")

\* The same molecules: the torsion handlers and their key maps vary.
InitTorsions ==
    /\ topology \in Topologies(2, {"H2O", "H2O2", "CH2O"}, {""}, "none")
    /\ \E t \in ProperModes, r \in RBModes, i \in ImproperModes :
          collections = Collections(topology, TRUE, "lorentz-berthelot", TRUE,
                                    "sorted", "forward", t, r, i)

\* One molecule: the nonbonded handlers vary.
InitSettings ==
    /\ topology \in Topologies(1, Chems, {"", "A"}, "all")
    /\ \E v \in BOOLEAN, mr \in MixingRules, e \in BOOLEAN :
          collections = Collections(topology, v, mr, e,
                                    "sorted", "forward", "forward", "forward", "central_first")

\* One or two fully parameterised molecules, with and without 1-4 pairs: the
\* pair enumerator varies.
InitPairs ==
    /\ topology \in Topologies(2, {"HCl", "H2O2"}, {""}, "all")
    /\ collections = Collections(topology, TRUE, "geometric", TRUE,
                                 "sorted", "forward", "forward", "absent", "central_first")
    /\ pair_enumerator \in PairEnumerators

\* Fully parameterised molecules of two and of eleven atoms, unnamed or
\* named "MOL": the type names of a long molecule reach two digits.
InitNames ==
    /\ topology \in Topologies(2, {"HCl", "HC9N"}, {"", "MOL"}, "all")
    /\ collections = Collections(topology, TRUE, "geometric", TRUE,
                                 "sorted", "forward", "forward", "absent", "central_first")

----------------------------------------------------------------------------
(* The SMIRNOFF handlers, openff/system/components/smirnoff.py: a handler   *)
(* holds slot_map (TopologyKey -> PotentialKey) and potentials              *)
(* (PotentialKey -> Potential), filled by store_matches and                 *)
(* store_potentials from a toolkit parameter handler. An Optional value is  *)
(* a sequence: <<>> for None, <<v>> for v.                                  *)

\* The handler classes with a store_potentials of their own.
SMIRNOFFHandlers == {"Bonds", "Angles", "ProperTorsions", "ImproperTorsions", "vdW"}

\* The SMIRKS patterns of the parameters of the toolkit parameter handler.
Smirks == {"[#6:1]", "[#1:1]"}

\* The number of atoms a parameter of the handler matches.
match_width(type) ==
    CASE type = "vdW" -> 1
      [] type \in {"Bonds", "Constraints"} -> 2
      [] type = "Angles" -> 3
      [] OTHER -> 4

\* The atom tuples of the topology a parameter can match.
MatchKeys(type) == ChainTuples(match_width(type) + 1, match_width(type))

\* parameter_handler.find_matches(topology): every atom tuple is matched by
\* one of the patterns or by none; a dict, in the order of the tuples.
FindMatches(type) ==
    LET keys == MatchKeys(type)
        matched(m) == m.smirks # None
    IN {SelectSeq([j \in 1..Len(keys) |-> [key |-> keys[j], smirks |-> f[j]]], matched) :
            f \in [1..Len(keys) -> Smirks \cup {None}]}

\* len(val.parameter_type.k) of a torsion parameter
n_terms(smirks) == IF smirks = "[#6:1]" THEN 2 ELSE 1

\* parameter_handler.get_parameter({"smirks": smirks})[0]
get_parameter(type, smirks) ==
    LET v == IF smirks = "[#6:1]" THEN 1 ELSE 2
    IN CASE type = "Bonds" -> [k |-> 100 * v, length |-> v]
         [] type = "Angles" -> [k |-> 50 * v, angle |-> 100 + v]
         [] type = "vdW" -> [sigma |-> v, epsilon |-> 10 * v]
         [] type = "Constraints" -> [distance |-> IF v = 1 THEN <<>> ELSE <<15>>]
         [] OTHER -> [k |-> [n \in 1..n_terms(smirks) |-> 10 * n + v],
                      periodicity |-> [n \in 1..n_terms(smirks) |-> n],
                      phase |-> [n \in 1..n_terms(smirks) |-> 180],
                      idivf |-> [n \in 1..n_terms(smirks) |-> 1]]

\* d.update(entries), entry after entry
RECURSIVE DictUpdate(_, _)
DictUpdate(d, entries) ==
    IF entries = <<>> THEN d
    ELSE DictUpdate(DictSet(d, Head(entries).key, Head(entries).val), Tail(entries))

\* cls(): a handler without slots and potentials; the vdW handler has a
\* method and a cutoff (lines 358-362)
NewHandler(type) ==
    IF type = "vdW"
    THEN [type |-> type, slot_map |-> <<>>, potentials |-> <<>>,
          method |-> "cutoff", cutoff |-> 9]
    ELSE [type |-> type, slot_map |-> <<>>, potentials |-> <<>>]

\* lines 57-60, and 241-247, 301-315 for the torsion handlers: the slots of
\* one match, one per term for a torsion
match_entries(type, match) ==
    IF type \in {"ProperTorsions", "ImproperTorsions"}
    THEN [n \in 1..n_terms(match.smirks) |->
             [key |-> TopologyKey(match.key, n - 1),
              val |-> PotentialKey(match.smirks, n - 1)]]
    ELSE <<[key |-> TopologyKey(match.key, None),
            val |-> PotentialKey(match.smirks, None)]>>

\* lines 42-60 (228-247, 290-315): store_matches, given what find_matches
\* returned
store_matches_of(self, matches) ==
    LET slot_map == IF self.slot_map # <<>> THEN <<>> ELSE self.slot_map
    IN [self EXCEPT !.slot_map =
           DictUpdate(slot_map,
                      Flatten([j \in 1..Len(matches) |->
                                  match_entries(self.type, matches[j])]))]

\* lines 90-91: the bond handler empties potentials first; lines 185-202,
\* 249-267, 317-334 and 381-408 have no such statement.
resets_potentials(type) == type = "Bonds"

\* The Potential stored under a potential key (lines 94-100, 195-201,
\* 258-266, 326-333, 392-407).
Potential(type, potential_key) ==
    LET parameter_type == get_parameter(type, potential_key.id)
        n == potential_key.mult
    IN CASE type = "Bonds" -> [k |-> parameter_type.k, length |-> parameter_type.length]
         [] type = "Angles" -> [k |-> parameter_type.k, angle |-> parameter_type.angle]
         [] type = "vdW" -> [sigma |-> parameter_type.sigma,
                             epsilon |-> parameter_type.epsilon]
         [] type = "ProperTorsions" ->
                [k |-> parameter_type.k[n + 1],
                 periodicity |-> parameter_type.periodicity[n + 1],
                 phase |-> parameter_type.phase[n + 1],
                 idivf |-> parameter_type.idivf[n + 1]]
         [] type = "ImproperTorsions" ->
                [k |-> parameter_type.k[n + 1],
                 periodicity |-> parameter_type.periodicity[n + 1],
                 phase |-> parameter_type.phase[n + 1],
                 idivf |-> 3]

\* store_potentials of the handler's class
store_potentials_of(self) ==
    LET potentials == IF resets_potentials(self.type) /\ self.potentials # <<>>
                      THEN <<>> ELSE self.potentials
        filled == DictUpdate(potentials,
                             [j \in 1..Len(self.slot_map) |->
                                 [key |-> self.slot_map[j].val,
                                  val |-> Potential(self.type, self.slot_map[j].val)]])
    IN IF self.type = "vdW"
       THEN [self EXCEPT !.method = lower("cutoff"), !.cutoff = 9, !.potentials = filled]
       ELSE [self EXCEPT !.potentials = filled]

\* lines 114-116: SMIRNOFFBondHandler.from_toolkit, the handler it returns
from_toolkit(type, matches) ==
    store_potentials_of(store_matches_of(NewHandler(type), matches))

\* SMIRNOFFConstraintHandler(); calls records the store_constraints calls
NewConstraintHandler ==
    [type |-> "Constraints", slot_map |-> <<>>, constraints |-> <<>>, calls |-> <<>>]

\* lines 150-177: the loop over the matches still to be handled. bond_handler
\* is Optional.
RECURSIVE constraints_loop(_, _, _)
constraints_loop(self, matches, bond_handler) ==
    IF matches = <<>> THEN [self |-> self, err |-> ""]
    ELSE LET topology_key == TopologyKey(Head(matches).key, None)
             smirks == Head(matches).smirks
             distance == get_parameter("Constraints", smirks).distance
         IN IF distance # <<>>
            THEN constraints_loop(
                     [self EXCEPT !.constraints =
                         DictSet(@, PotentialKey(smirks, None), [distance |-> distance[1]])],
                     Tail(matches), bond_handler)
            ELSE IF bond_handler = <<>>
            THEN [self |-> self, err |-> "MissingParametersError"]
            ELSE IF ~DictHas(bond_handler[1].slot_map, topology_key)
            THEN [self |-> self, err |-> "KeyError"]
            ELSE LET potential_key == DictGet(bond_handler[1].slot_map, topology_key)
                     slotted == [self EXCEPT !.slot_map =
                                    DictSet(@, topology_key, potential_key)]
                 IN IF ~DictHas(bond_handler[1].potentials, potential_key)
                    THEN [self |-> slotted, err |-> "KeyError"]
                    ELSE constraints_loop(
                             [slotted EXCEPT !.constraints =
                                 DictSet(@, potential_key,
                                         [distance |->
                                             DictGet(bond_handler[1].potentials,
                                                     potential_key).length])],
                             Tail(matches), bond_handler)

\* lines 140-177: store_constraints, given what find_matches returned
store_constraints_of(self, matches, bond_handler) ==
    LET emptied == IF self.slot_map # <<>> THEN [self EXCEPT !.slot_map = <<>>] ELSE self
        out == constraints_loop(emptied, matches, bond_handler)
    IN [out.self EXCEPT !.calls =
           Append(@, [matches |-> matches, bond_handler |-> bond_handler # <<>>,
                      err |-> out.err])]

\* No SMIRNOFF handler.
NoHandler ==
    /\ potential_handler = <<>>
    /\ store_calls = <<>>
    /\ constraint_handler = <<>>

\* No System for the earlier writer, and no file.
NoSystem ==
    /\ openff_sys = <<>>
    /\ files = <<>>

Init ==
    /\ \/ /\ InitTopology \/ InitBonded \/ InitTorsions \/ InitSettings \/ InitNames
          /\ pair_enumerator = "once"
       \/ InitPairs
    /\ results = <<>>
    /\ writer = NoWriter
    /\ stream = NoStream
    /\ NoSystem
    /\ NoHandler

\* Fully parameterised systems for the writer: molecules with and without
\* torsions, all unnamed or all named with a space, residue names present or
\* not, with and without Ryckaert-Bellemans torsions.
InitWriter ==
    /\ topology \in UNION {Topologies(2, {"Ar", "H2O2", "CH2O"}, {n}, r) :
                              n \in {"", "A B"}, r \in {"none", "all"}}
    /\ \E r \in {"absent", "forward"} :
          collections = Collections(topology, TRUE, "geometric", TRUE,
                                    "sorted", "forward", "two_terms", r,
                                    "central_first")
    /\ results = <<>>
    /\ writer = NoWriter
    /\ stream = NoStream
    /\ pair_enumerator = "once"
    /\ NoSystem
    /\ NoHandler


----------------------------------------------------------------------------
(* The earlier writer, openff/system/interop/internal.py: to_gro and to_top *)
(* on a System that holds a topology, handlers, positions and a box.  The   *)
(* slot maps are keyed by str() of a tuple of topology indices; the tuple   *)
(* stands for its string here.                                              *)

\* line 38: atom indices are written modulo this
GroIndexModulus == 100000

\* openff_sys.topology.topology_atoms: the atomic numbers, molecule after
\* molecule
topology_atoms(top) == Flatten([q \in 1..Len(top) |-> ChemAtoms(top[q].chem)])

\* A line of a .gro file.
gro_line(part, fields) == [kind |-> "record", section |-> part, fields |-> fields]

\* line 25: the atom-count line
gro_count(sys) == gro_line("count", <<Len(sys.positions)>>)

\* lines 26-43: the line of the atom with Python index idx
gro_atom(sys, idx) ==
    LET atom_name == SYMBOLS(topology_atoms(sys.topology)[idx + 1]) \o ToString(idx + 1)
        pos == sys.positions[idx + 1]
    IN gro_line("atom", <<1 % GroIndexModulus, "FOO", atom_name,
                          (idx + 1) % GroIndexModulus, pos[1], pos[2], pos[3]>>)

\* line 48: (box == np.diag(np.diagonal(box))).all()
is_rectangular(box) == \A i, j \in 1..3 : i # j => box[i][j] = 0

\* A box line that holds the diagonal only, whatever the box.
gro_box_diagonal_only(box) == gro_line("box", <<box[1][1], box[2][2], box[3][3]>>)

\* lines 46-59: the box line
gro_box(box) ==
    LET diagonal == <<box[1][1], box[2][2], box[3][3]>>
        others == <<box[1][2], box[1][3], box[2][1], box[2][3], box[3][1], box[3][2]>>
    IN IF is_rectangular(box)
       THEN gro_line("box", diagonal)
       ELSE gro_line("box", diagonal \o others)

\* lines 13-59: to_gro(openff_sys, file_path), as the file it leaves
to_gro_of(sys, file_path) ==
    [call |-> "to_gro",
     path |-> file_path,
     opened |-> TRUE,
     err |-> "",
     lines |-> <<gro_line("title", <<"Generated by OpenFF System">>), gro_count(sys)>>
               \o [i \in 1..Len(topology_atoms(sys.topology)) |-> gro_atom(sys, i - 1)]
               \o <<gro_box(sys.box)>>]

\* lines 83-100: _write_top_defaults. The header and comment are written
\* before the handlers are looked up.
internal_write_top_defaults(sys) ==
    LET head == <<header("[ defaults ]"),
                  comment("; nbfunc comb-rule gen-pairs fudgeLJ fudgeQQ")>>
    IN IF "vdW" \notin DOMAIN sys.handlers \/ "Electrostatics" \notin DOMAIN sys.handlers
       THEN [err |-> "KeyError", lines |-> head]
       ELSE [err |-> "",
             lines |-> head \o <<record("defaults",
                                        <<1, "2", "yes", sys.handlers["vdW"].scale_14,
                                          sys.handlers["Electrostatics"].scale_14>>),
                                 blank>>]

\* lines 105-119: typemap. elements[element] is set to 0 and never advanced.
internal_typemap(sys) ==
    [i \in 1..Len(topology_atoms(sys.topology)) |->
        SYMBOLS(topology_atoms(sys.topology)[i]) \o ToString(0)]

\* lines 313-319: _get_lj_parameters found a slot for the atom
has_lj_parameters(sys, atom_idx) ==
    DictHas(sys.handlers["vdW"].slot_map, TopologyKey(<<atom_idx>>, None))

\* lines 313-319: _get_lj_parameters
_get_lj_parameters(sys, atom_idx) ==
    DictGet(sys.handlers["vdW"].potentials,
            DictGet(sys.handlers["vdW"].slot_map, TopologyKey(<<atom_idx>>, None)))

\* lines 103-146: _write_atomtypes. The lines before an atom without a slot
\* stay written.
internal_write_atomtypes(sys) ==
    LET atoms == topology_atoms(sys.topology)
        stop == FirstIndex([i \in 1..Len(atoms) |-> ~has_lj_parameters(sys, i - 1)])
        n == IF stop = 0 THEN Len(atoms) ELSE stop - 1
        head == <<header("[ atomtypes ]"),
                  comment(";type, bondingtype, atomic_number, mass, charge, ptype, sigma, epsilon")>>
        body == [i \in 1..n |->
                    record("atomtypes",
                           <<internal_typemap(sys)[i], "XX", atoms[i], MASSES(atoms[i]),
                             0, "A", _get_lj_parameters(sys, i - 1).sigma,
                             _get_lj_parameters(sys, i - 1).epsilon>>)]
    IN [err |-> IF stop = 0 THEN "" ELSE "KeyError", lines |-> head \o body]

\* lines 149-155: _write_moleculetypes
internal_write_moleculetypes(sys) ==
    IF Len(sys.topology) > 1
    THEN [err |-> "Exception", lines |-> <<>>]
    ELSE [err |-> "",
          lines |-> <<header("[ moleculetype ]"), comment("; Name nrexcl"),
                      record("moleculetype", <<"FOO", 3>>), blank>>]

\* lines 158-181: _write_atoms
internal_write_atoms(sys) ==
    LET atoms == topology_atoms(sys.topology)
    IN <<header("[ atoms ]"),
         comment(";num, type, resnum, resname, atomname, cgnr, q, m")>>
       \o [i \in 1..Len(atoms) |->
              record("atoms", <<i, internal_typemap(sys)[i], 1, "FOO", SYMBOLS(atoms[i]),
                                i, sys.handlers["Electrostatics"].charge_map[i],
                                MASSES(atoms[i])>>)]

\* lines 191-215 and 218-243: _write_bonds and _write_angles, for the handler
\* of the given name
internal_write_slots(sys, name, section, head_comment) ==
    IF name \notin DOMAIN sys.handlers THEN <<>>
    ELSE LET handler == sys.handlers[name]
         IN <<header(section), comment(head_comment)>>
            \o [j \in 1..Len(handler.slot_map) |->
                   record(name,
                          [i \in 1..Len(handler.slot_map[j].key.atom_indices) |->
                              handler.slot_map[j].key.atom_indices[i] + 1]
                          \o <<"1", DictGet(handler.potentials, handler.slot_map[j].val)>>)]
            \o <<blank, blank>>

\* lines 257-277 and 279-299: the lines of the slots of a torsion handler,
\* with the parameters looked up in the potentials given
internal_torsion_lines(slot_map, potentials, function) ==
    LET stop == FirstIndex([j \in 1..Len(slot_map) |->
                               ~DictHas(potentials, slot_map[j].val)])
        n == IF stop = 0 THEN Len(slot_map) ELSE stop - 1
    IN [err |-> IF stop = 0 THEN "" ELSE "KeyError",
        lines |-> [j \in 1..n |->
                      LET params == DictGet(potentials, slot_map[j].val)
                      IN record("dihedrals",
                                [i \in 1..4 |-> slot_map[j].key.atom_indices[i] + 1]
                                \o <<function, params.phase,
                                     params.k \div params.idivf, params.periodicity>>)]]

\* lines 246-299: _write_dihedrals. Both handlers are looked up as soon as
\* one of them is there, and the impropers' parameters are looked up in the
\* proper handler's potentials (line 282).
internal_write_dihedrals(sys) ==
    LET head == <<header("[ dihedrals ]"), comment(";    i      j      k      l   func")>>
    IN IF "ProperTorsions" \notin DOMAIN sys.handlers
          /\ "ImproperTorsions" \notin DOMAIN sys.handlers
       THEN [err |-> "", lines |-> <<>>]
       ELSE IF "ProperTorsions" \notin DOMAIN sys.handlers
               \/ "ImproperTorsions" \notin DOMAIN sys.handlers
       THEN [err |-> "KeyError", lines |-> head]
       ELSE LET proper == internal_torsion_lines(
                              sys.handlers["ProperTorsions"].slot_map,
                              sys.handlers["ProperTorsions"].potentials, 1)
                improper == internal_torsion_lines(
                                sys.handlers["ImproperTorsions"].slot_map,
                                sys.handlers["ProperTorsions"].potentials, 4)
            IN IF proper.err # ""
               THEN [err |-> proper.err, lines |-> head \o proper.lines]
               ELSE [err |-> improper.err,
                     lines |-> head \o proper.lines \o improper.lines]

\* lines 302-310: _write_system. "[ molecules ]" is written without a line
\* end, so the comment follows it on the same line.
internal_write_system ==
    <<header("[ system ]"), comment("; name "), record("system", <<"System name">>),
      blank,
      header("[ molecules ]; Compound nmols"), record("molecules", <<"FOO", 1>>)>>

\* lines 72-80: the body of the with block of to_top
internal_to_top_body(sys) ==
    LET first == <<comment("; Generated by OpenFF System")>>
        d == internal_write_top_defaults(sys)
        t == internal_write_atomtypes(sys)
        m == internal_write_moleculetypes(sys)
        h == internal_write_dihedrals(sys)
        valence == internal_write_slots(sys, "Bonds", "[ bonds ]", "; ai aj func r k")
                   \o internal_write_slots(sys, "Angles", "[ angles ]",
                                           "; ai aj ak func r k")
    IN IF d.err # "" THEN [err |-> d.err, lines |-> first \o d.lines]
       ELSE IF t.err # "" THEN [err |-> t.err, lines |-> first \o d.lines \o t.lines]
       ELSE IF m.err # ""
       THEN [err |-> m.err, lines |-> first \o d.lines \o t.lines \o m.lines]
       ELSE LET upto == first \o d.lines \o t.lines \o m.lines
                        \o internal_write_atoms(sys) \o valence \o h.lines
            IN IF h.err # "" THEN [err |-> h.err, lines |-> upto]
               ELSE [err |-> "", lines |-> upto \o internal_write_system]


\* lines 62-80: to_top(openff_sys, file_path), as the file it leaves: the file
\* is opened before anything is looked at
internal_to_top_of(sys, file_path) ==
    LET out == internal_to_top_body(sys)
    IN [call |-> "to_top", path |-> file_path, opened |-> TRUE,
        err |-> out.err, lines |-> out.lines]

\* The handler names a System of the earlier writer may hold.
HandlerSets ==
    {{"vdW", "Electrostatics", "Bonds", "Angles", "ProperTorsions", "ImproperTorsions"},
     {"vdW", "Electrostatics", "Bonds", "Angles", "ProperTorsions"},
     {"vdW", "Electrostatics", "Bonds", "Angles"},
     {"vdW", "Electrostatics"},
     {"Electrostatics", "Bonds", "Angles"},
     {"vdW", "Bonds", "Angles"}}

\* openff_sys.handlers: the handlers of the given names for the topology, as
\* store_matches and store_potentials fill them. With complete false the vdW
\* slot map lacks the last atom of the topology.
Handlers(top, names, complete) ==
    LET n == n_atoms(top)
        vdw == vdWCollection(top, TRUE, "Lorentz-Berthelot")
    IN [h \in names |->
          CASE h = "vdW" ->
                   [scale_14 |-> vdw.scale_14,
                    slot_map |-> IF complete THEN vdw.key_map
                                 ELSE SubSeq(vdw.key_map, 1, n - 1),
                    potentials |-> vdw.potentials]
            [] h = "Electrostatics" ->
                   [scale_14 |-> ElectrostaticsCollection(TRUE).scale_14,
                    charge_map |-> [i \in 1..n |-> 0]]
            [] h = "Bonds" ->
                   [slot_map |-> BondsCollection(top, "sorted").key_map,
                    potentials |-> BondsCollection(top, "sorted").potentials]
            [] h = "Angles" ->
                   [slot_map |-> AnglesCollection(top, "forward").key_map,
                    potentials |-> AnglesCollection(top, "forward").potentials]
            [] h = "ProperTorsions" ->
                   [slot_map |-> ProperTorsionsCollection(top, "forward").key_map,
                    potentials |-> ProperTorsionsCollection(top, "forward").potentials]
            [] h = "ImproperTorsions" ->
                   [slot_map |-> ImproperTorsionsCollection(top, "central_first").key_map,
                    potentials |->
                        ImproperTorsionsCollection(top, "central_first").potentials]]

\* openff_sys.box: a rectangular and a triclinic box
Boxes ==
    {<< <<3, 0, 0>>, <<0, 4, 0>>, <<0, 0, 5>> >>,
     << <<3, 0, 0>>, <<1, 4, 0>>, <<1, 2, 5>> >>}

\* No Interchange, for the runs of the earlier writer.
NoInterchange ==
    /\ topology = <<>>
    /\ collections = <<>>
    /\ results = <<>>
    /\ writer = NoWriter
    /\ stream = NoStream
    /\ pair_enumerator = "once"

\* The Systems handed to the earlier writer: one or two molecules, the
\* handlers held, a complete or incomplete vdW slot map, the box; one position
\* per atom.
InitSystem ==
    /\ NoInterchange
    /\ NoHandler
    /\ \E top \in Topologies(2, {"Ar", "H2O2", "CH2O"}, {""}, "none"),
          names \in HandlerSets, complete \in BOOLEAN, box \in Boxes :
          openff_sys = [topology |-> top,
                        handlers |-> Handlers(top, names, complete),
                        positions |-> [i \in 1..n_atoms(top) |-> <<i, i + 1, i + 2>>],
                        box |-> box]
    /\ files = <<>>

\* One new handler of each class.
InitHandlers ==
    /\ potential_handler \in {NewHandler(type) : type \in SMIRNOFFHandlers}
    /\ store_calls = <<>>
    /\ constraint_handler = <<>>
    /\ NoInterchange
    /\ NoSystem

\* A bond handler as from_toolkit returns it and a new constraint handler.
InitConstraints ==
    /\ potential_handler \in {from_toolkit("Bonds", matches) :
                                  matches \in FindMatches("Bonds")}
    /\ store_calls = <<>>
    /\ constraint_handler = NewConstraintHandler
    /\ NoInterchange
    /\ NoSystem

----------------------------------------------------------------------------
(* The operations.                                                          *)

\* What a call of _convert leaves the caller with: the System, or the error.
outcome(r) ==
    IF r.err = "" THEN [err |-> "", at |-> <<>>, system |-> r.system]
    ELSE [err |-> r.err, at |-> r.at]

\* _convert(interchange) is called on the Interchange object.
convert ==
    /\ Len(results) < MaxCalls
    /\ LET r == _convert(topology, collections)
       IN /\ topology' = r.top
          /\ results' = Append(results, outcome(r))
    /\ UNCHANGED <<collections, writer, stream, pair_enumerator, system_vars, smirnoff_vars>>

\* GROMACSWriter(system=<the latest System>, ...).to_top()
to_top ==
    /\ results # <<>>
    /\ results[Len(results)].err = ""
    /\ ~writer.called
    /\ writer' = to_top_of([NoWriter EXCEPT !.built = TRUE,
                                            !.system = results[Len(results)].system])
    /\ UNCHANGED <<topology, collections, results, stream, pair_enumerator, system_vars, smirnoff_vars>>

\* writer.<method>(top) for a GROMACSWriter built on system. Nothing more is
\* written once a call has raised.
write_section(method, system) ==
    /\ Len(stream.calls) < MaxWrites
    /\ stream.err = ""
    /\ LET out == section_method(method, system)
       IN stream' = [system |-> system,
                     calls |-> Append(stream.calls, method),
                     lines |-> stream.lines \o out.lines,
                     err |-> out.err]
    /\ UNCHANGED <<topology, collections, results, writer, pair_enumerator, system_vars, smirnoff_vars>>

Next == convert \/ to_top

Spec == Init /\ [][Next]_vars

\* The writer's section methods, called on a stream: the first call is made
\* on a writer built after _convert returned a System, later calls on the
\* same writer.
write_sections ==
    /\ results # <<>>
    /\ results[Len(results)].err = ""
    /\ \E method \in SectionMethods :
          \E system \in (IF stream.calls = <<>>
                         THEN WriterSystems(results[Len(results)].system)
                         ELSE {stream.system}) :
              write_section(method, system)

NextWriter == convert \/ write_sections

SpecWriter == InitWriter /\ [][NextWriter]_vars

\* to_gro(openff_sys, "out.gro")
to_gro ==
    /\ \A k \in 1..Len(files) : files[k].call # "to_gro"
    /\ files' = Append(files, to_gro_of(openff_sys, "out.gro"))
    /\ UNCHANGED <<interchange_vars, openff_sys, smirnoff_vars>>

\* to_top(openff_sys, "out.top") of the earlier writer
internal_to_top ==
    /\ \A k \in 1..Len(files) : files[k].call # "to_top"
    /\ files' = Append(files, internal_to_top_of(openff_sys, "out.top"))
    /\ UNCHANGED <<interchange_vars, openff_sys, smirnoff_vars>>

NextSystem == to_gro \/ internal_to_top

SpecSystem == InitSystem /\ [][NextSystem]_vars

\* handler.store_matches(parameter_handler, topology)
store_matches ==
    /\ Len(store_calls) < MaxStores
    /\ \E matches \in FindMatches(potential_handler.type) :
          /\ potential_handler' = store_matches_of(potential_handler, matches)
          /\ store_calls' = Append(store_calls,
                                   [method |-> "store_matches", matches |-> matches])
    /\ UNCHANGED <<interchange_vars, system_vars, constraint_handler>>

\* handler.store_potentials(parameter_handler)
store_potentials ==
    /\ Len(store_calls) < MaxStores
    /\ potential_handler' = store_potentials_of(potential_handler)
    /\ store_calls' = Append(store_calls,
                             [method |-> "store_potentials", matches |-> <<>>])
    /\ UNCHANGED <<interchange_vars, system_vars, constraint_handler>>

NextHandlers == store_matches \/ store_potentials

SpecHandlers == InitHandlers /\ [][NextHandlers]_vars

\* constraints.store_constraints(parameter_handler, topology, bond_handler),
\* with the bond handler or without
store_constraints ==
    /\ Len(constraint_handler.calls) < MaxConstraintStores
    /\ \E matches \in FindMatches("Constraints") :
          \E bond_handler \in {<<>>, <<potential_handler>>} :
              constraint_handler' =
                  store_constraints_of(constraint_handler, matches, bond_handler)
    /\ UNCHANGED <<interchange_vars, system_vars, potential_handler, store_calls>>

NextConstraints == store_constraints

SpecConstraints == InitConstraints /\ [][NextConstraints]_vars

----------------------------------------------------------------------------
(* Vocabulary of the properties.                                            *)

\* The calls of _convert that returned a System.
Returned == {i \in 1..Len(results) : results[i].err = ""}

\* The Python indices of the representative molecules.
Representatives ==
    {identical_molecule_groups(topology)[j] :
        j \in 1..Len(identical_molecule_groups(topology))}

\* The representative of the isomorphism class of the molecule at position q.
RepresentativeOf(q) ==
    CHOOSE u \in Representatives : is_isomorphic_with(topology[u + 1], topology[q])

\* Representative u is the only representative with its name.
NameIsUnique(u) ==
    \A v \in Representatives : topology[v + 1].name = topology[u + 1].name => v = u

\* The MoleculeType system holds under the name of representative u.
MoleculeTypeOf(system, u) == DictGet(system.molecule_types, topology[u + 1].name)

\* The topology indices of a tuple of local atom indices of molecule u.
Global(u, t) == [i \in 1..Len(t) |-> atom_index(topology, u, t[i])]

\* The 1-based local indices of a tuple of 0-based ones.
OneBased(t) == [i \in 1..Len(t) |-> t[i] + 1]

HasKey(handler, atom_indices) ==
    \E j \in 1..Len(handler.key_map) : handler.key_map[j].key.atom_indices = atom_indices

----------------------------------------------------------------------------
(* C1. Atom count: in every System _convert returns, the sum over            *)
(* system.molecules of count x atoms of the MoleculeType of that name        *)
(* equals the number of atoms of the topology, whatever the molecules'       *)
(* names.                                                                    *)

TemplateAtomTotal(system) ==
    SumSeq([j \in 1..Len(system.molecules) |->
               system.molecules[j].val
               * Len(DictGet(system.molecule_types, system.molecules[j].key).atoms)])

C1_AtomCountConserved ==
    \A i \in Returned : TemplateAtomTotal(results[i].system) = n_atoms(topology)

(* C2. Dense atom indices: in every returned System every MoleculeType's     *)
(* atom list carries the indices 1, 2, ..., N once each, in that order.      *)

C2_AtomIndicesDense ==
    \A i \in Returned :
        \A j \in 1..Len(results[i].system.molecule_types) :
            LET atoms == results[i].system.molecule_types[j].val.atoms
            IN \A k \in 1..Len(atoms) : atoms[k].index = k

(* C3. Atom types: in every returned System the number of atom types equals  *)
(* the number of atoms of all representative molecules, so that no two       *)
(* (molecule, local atom index) pairs share a type name.                     *)

C3_OneAtomTypePerUniqueAtom ==
    \A i \in Returned :
        Len(results[i].system.atom_types)
            = SumSeq([j \in 1..Len(identical_molecule_groups(topology)) |->
                         NAtoms(topology[identical_molecule_groups(topology)[j] + 1].chem)])

(* C4. No silent drop: when _convert returns a System, every structural      *)
(* bond, angle, proper torsion and improper torsion of a representative      *)
(* molecule has at least one matching record in its MoleculeType (a missing  *)
(* match raises instead of returning).                                       *)

DihedralAtoms(d) == <<d.atom1, d.atom2, d.atom3, d.atom4>>

SetOf(t) == {t[i] : i \in 1..Len(t)}

HasBondRecord(mt, bond) ==
    \E j \in 1..Len(mt.bonds) :
        <<mt.bonds[j].atom1, mt.bonds[j].atom2>> = OneBased(Sorted2(bond[1], bond[2]))

HasAngleRecord(mt, angle) ==
    \E j \in 1..Len(mt.angles) :
        <<mt.angles[j].atom1, mt.angles[j].atom2, mt.angles[j].atom3>> = OneBased(angle)

HasProperRecord(mt, proper) ==
    \E j \in 1..Len(mt.dihedrals) :
        /\ mt.dihedrals[j].kind \in {"PeriodicProperDihedral", "RyckaertBellemansDihedral"}
        /\ DihedralAtoms(mt.dihedrals[j]) = OneBased(proper)

\* A record on the four atoms of the improper, in whichever order.
HasImproperRecord(mt, improper) ==
    \E j \in 1..Len(mt.dihedrals) :
        /\ mt.dihedrals[j].kind = "PeriodicImproperDihedral"
        /\ SetOf(DihedralAtoms(mt.dihedrals[j])) = SetOf(OneBased(improper))

C4_NoSilentDrop ==
    \A i \in Returned :
        \A u \in Representatives :
            NameIsUnique(u) =>
                LET mt == MoleculeTypeOf(results[i].system, u)
                    chem == topology[u + 1].chem
                IN /\ \A j \in 1..Len(ChemBonds(chem)) : HasBondRecord(mt, ChemBonds(chem)[j])
                   /\ \A j \in 1..Len(ChemAngles(chem)) : HasAngleRecord(mt, ChemAngles(chem)[j])
                   /\ \A j \in 1..Len(ChemPropers(chem)) :
                          HasProperRecord(mt, ChemPropers(chem)[j])
                   /\ \A j \in 1..Len(ChemImpropers(chem)) :
                          HasImproperRecord(mt, ChemImpropers(chem)[j])

(* C5. Impropers: an improper the adapter lists as (A, central, B, C) is     *)
(* matched with the key (central, A, B, C). As claimed, the emitted          *)
(* PeriodicImproperDihedral lists the atoms in the adapter's order, central  *)
(* atom second.                                                              *)

\* The improper records of representative u, and the adapter's impropers
\* whose centre-first tuple is a key of the improper handler.
ImproperRecords(system, u) ==
    {DihedralAtoms(MoleculeTypeOf(system, u).dihedrals[j]) :
        j \in {k \in 1..Len(MoleculeTypeOf(system, u).dihedrals) :
                  MoleculeTypeOf(system, u).dihedrals[k].kind = "PeriodicImproperDihedral"}}

MatchedImpropers(u) ==
    {ChemImpropers(topology[u + 1].chem)[j] :
        j \in {k \in 1..Len(ChemImpropers(topology[u + 1].chem)) :
                  LET t == Global(u, ChemImpropers(topology[u + 1].chem)[k])
                  IN /\ collections["ImproperTorsions"].present
                     /\ HasKey(collections["ImproperTorsions"],
                               <<t[2], t[1], t[3], t[4]>>)}}

ExpandMolecules(molecules) ==
    Flatten([j \in 1..Len(molecules) |->
                [k \in 1..molecules[j].val |-> molecules[j].key]])

TemplateSequence ==
    [q \in 1..Len(topology) |-> topology[RepresentativeOf(q) + 1].name]

C6_MoleculesFollowTopologyOrder ==
    \A i \in Returned :
        (\A u \in Representatives : NameIsUnique(u)) =>
            ExpandMolecules(results[i].system.molecules) = TemplateSequence

(* C7. Determinism: two calls of _convert in succession on the same          *)
(* Interchange object end the same way and, when they return, return equal   *)
(* Systems.                                                                  *)

C7_SecondCallEqualsFirst ==
    Len(results) >= 2 =>
        /\ results[2].err = results[1].err
        /\ results[1].err = "" => results[2].system = results[1].system

(* C8. Mixing rule: Lorentz-Berthelot gives combination rule 2 and geometric *)
(* gives 3 (the rule is compared in lower case); any other mixing rule, and  *)
(* an Interchange without a vdW handler, ends in UnsupportedExportError and  *)
(* no System.                                                                *)

LorentzBerthelotSpellings == {"Lorentz-Berthelot", "lorentz-berthelot"}

GeometricSpellings == {"geometric", "GEOMETRIC", "Geometric"}

C8_MixingRule ==
    \A i \in 1..Len(results) :
        LET vdw == collections["vdW"]
            r == results[i]
        IN /\ ~vdw.present => r.err = "UnsupportedExportError"
           /\ vdw.present /\ vdw.mixing_rule \notin
                  (LorentzBerthelotSpellings \cup GeometricSpellings)
                  => r.err = "UnsupportedExportError"
           /\ vdw.present /\ vdw.mixing_rule \in LorentzBerthelotSpellings
                  => /\ r.err # "UnsupportedExportError"
                     /\ r.err = "" => r.system.combination_rule = 2
           /\ vdw.present /\ vdw.mixing_rule \in GeometricSpellings
                  => /\ r.err # "UnsupportedExportError"
                     /\ r.err = "" => r.system.combination_rule = 3

\* A System with combination rule 3 was returned for the mixing rule
\* "geometric".
C8_Witness ==
    /\ collections["vdW"].present
    /\ collections["vdW"].mixing_rule = "geometric"
    /\ \E i \in Returned : results[i].system.combination_rule = 3

(* C9. Bond matching is order-insensitive, angle matching is not: the bond   *)
(* records of a returned System are the ones the same topology yields with   *)
(* every bond key reversed; and when the key map holds a structural angle    *)
(* (a, b, c) of a representative only as (c, b, a), the call raises (a       *)
(* MissingAngleError once every bond has matched).                           *)

ReverseKeys(handler) ==
    [handler EXCEPT !.key_map =
        [j \in 1..Len(handler.key_map) |->
            [handler.key_map[j] EXCEPT !.key.atom_indices = Reversed(@)]]]

AngleOnlyReversed(u, angle) ==
    /\ ~HasKey(collections["Angles"], Global(u, angle))
    /\ HasKey(collections["Angles"], Reversed(Global(u, angle)))

SomeAngleOnlyReversed ==
    \E u \in Representatives :
        \E j \in 1..Len(ChemAngles(topology[u + 1].chem)) :
            AngleOnlyReversed(u, ChemAngles(topology[u + 1].chem)[j])

EveryBondKeyed ==
    \A u \in Representatives :
        \A j \in 1..Len(ChemBonds(topology[u + 1].chem)) :
            LET t == Global(u, ChemBonds(topology[u + 1].chem)[j])
            IN HasKey(collections["Bonds"], t) \/ HasKey(collections["Bonds"], Reversed(t))

C9_BondsEitherOrderAnglesForwardOnly ==
    \A i \in 1..Len(results) :
        /\ results[i].err = "" =>
              \A u \in Representatives :
                  NameIsUnique(u) =>
                      MoleculeTypeOf(results[i].system, u).bonds
                          = _convert_bonds(topology,
                                           [collections EXCEPT
                                               !["Bonds"] = ReverseKeys(@)],
                                           u, ChemBonds(topology[u + 1].chem), <<>>).bonds
        /\ SomeAngleOnlyReversed =>
              /\ results[i].err \in {"MissingBondError", "MissingAngleError"}
              /\ EveryBondKeyed => results[i].err = "MissingAngleError"

\* A System with a bond record was returned from a key map that holds the
\* bond's indices in descending order only.
C9_Witness ==
    \E i \in Returned :
        \E u \in Representatives :
            /\ NameIsUnique(u)
            /\ MoleculeTypeOf(results[i].system, u).bonds # <<>>
            /\ \A j \in 1..Len(collections["Bonds"].key_map) :
                  collections["Bonds"].key_map[j].key.atom_indices[1]
                      > collections["Bonds"].key_map[j].key.atom_indices[2]

(* C10. Section order: once to_top has been called, the file holds the       *)
(* section headers defaults, atomtypes, then for each molecule type          *)
(* moleculetype, atoms, pairs, bonds, angles, dihedrals, settles,            *)
(* exclusions, and finally system, molecules, every one of them written.     *)

RECURSIVE Headers(_)
Headers(lines) ==
    IF lines = <<>> THEN <<>>
    ELSE (IF Head(lines).kind = "header" THEN <<Head(lines).text>> ELSE <<>>)
         \o Headers(Tail(lines))

ExpectedHeaders(system) ==
    <<"[ defaults ]", "[ atomtypes ]">>
    \o Flatten([j \in 1..Len(system.molecule_types) |->
                   <<"[ moleculetype ]", "[ atoms ]", "[ pairs ]", "[ bonds ]",
                     "[ angles ]", "[ dihedrals ]", "[ settles ]", "[ exclusions ]">>])
    \o <<"[ system ]", "[ molecules ]">>

C10_SectionsInOrder ==
    writer.called => Headers(writer.lines) = ExpectedHeaders(writer.system)

(* C11. Section grammar: in what the section methods have written, every     *)
(* section is a bracketed header line, immediately followed by a             *)
(* ';'-prefixed column-comment line, then exactly one line per record, then  *)
(* a blank separator line.                                                   *)

\* The number of record lines of a section among lines.
RecordLines(lines, section) ==
    Cardinality({i \in 1..Len(lines) : /\ lines[i].kind = "record"
                                       /\ lines[i].section = section})

\* The number of records the molecule types of system hold in a collection.
RecordsHeld(system, collection) ==
    SumSeq([j \in 1..Len(system.molecule_types) |->
               Len(system.molecule_types[j].val[collection])])

C11_SectionGrammar ==
    stream.err = "" =>
        LET lines == stream.lines
            kind(i) == IF i \in 1..Len(lines) THEN lines[i].kind ELSE "end"
        IN /\ \A i \in 1..Len(lines) :
                 /\ kind(i) = "header" => kind(i + 1) = "comment"
                 /\ kind(i) = "comment" => /\ kind(i - 1) = "header"
                                           /\ kind(i + 1) \in {"record", "blank"}
                 /\ kind(i) = "record" => /\ kind(i - 1) \in {"comment", "record"}
                                          /\ kind(i + 1) \in {"record", "blank"}
           /\ stream.calls = <<"_write_moleculetypes">> =>
                 \A c \in {"atoms", "pairs", "bonds", "angles", "dihedrals"} :
                     RecordLines(lines, c) = RecordsHeld(stream.system, c)

(* C12. Names without spaces: in what the section methods have written,      *)
(* no molecule name (in [ moleculetype ] and [ molecules ]) and no residue   *)
(* name (in [ atoms ]) contains a space.                                     *)

\* The molecule names and the residue names among lines.
WrittenNames(lines) ==
    {lines[i].fields[1] :
        i \in {j \in 1..Len(lines) : /\ lines[j].kind = "record"
                                     /\ lines[j].section \in {"moleculetype", "molecules"}}}
    \cup {lines[i].fields[4] :
        i \in {j \in 1..Len(lines) : /\ lines[j].kind = "record"
                                     /\ lines[j].section = "atoms"}}

\* A name with an embedded space is one that replacing spaces changes.
HasSpace(s) == replace_space(s) # s

C12_NoSpaceInWrittenNames ==
    \A n \in WrittenNames(stream.lines) : ~HasSpace(n)

(* C13. Dihedral function codes: _write_dihedrals writes code 1 for a        *)
(* PeriodicProperDihedral, 3 for a RyckaertBellemansDihedral and 4 for a     *)
(* PeriodicImproperDihedral; codes 1 and 4 are followed by phase, force      *)
(* constant and multiplicity, code 3 by c0..c5; a dihedral of any other      *)
(* variant ends the call in ValueError.                                      *)

DihedralVariants ==
    {"PeriodicProperDihedral", "RyckaertBellemansDihedral", "PeriodicImproperDihedral"}

\* The line the claim expects for a dihedral of one of the three variants.
ExpectedDihedralFields(d) ==
    <<d.atom1, d.atom2, d.atom3, d.atom4>>
    \o CASE d.kind = "PeriodicProperDihedral" -> <<1, d.phi, d.k, d.multiplicity>>
         [] d.kind = "RyckaertBellemansDihedral" ->
                <<3, d.c0, d.c1, d.c2, d.c3, d.c4, d.c5>>
         [] d.kind = "PeriodicImproperDihedral" -> <<4, d.phi, d.k, d.multiplicity>>

\* The dihedrals of all molecule types of system, in the order of writing.
DihedralsHeld(system) ==
    Flatten([j \in 1..Len(system.molecule_types) |->
                system.molecule_types[j].val.dihedrals])

\* The fields of the [ dihedrals ] record lines among lines, in order.
RECURSIVE DihedralLines(_)
DihedralLines(lines) ==
    IF lines = <<>> THEN <<>>
    ELSE (IF Head(lines).kind = "record" /\ Head(lines).section = "dihedrals"
          THEN <<Head(lines).fields>> ELSE <<>>)
         \o DihedralLines(Tail(lines))

C13_DihedralFunctionCodes ==
    stream.calls = <<"_write_moleculetypes">> =>
        LET held == DihedralsHeld(stream.system)
            written == DihedralLines(stream.lines)
            other == \E k \in 1..Len(held) : held[k].kind \notin DihedralVariants
        IN /\ \A k \in 1..Len(written) :
                 /\ k <= Len(held)
                 /\ held[k].kind \in DihedralVariants
                 /\ written[k] = ExpectedDihedralFields(held[k])
           /\ ~other => stream.err = "" /\ Len(written) = Len(held)
           /\ other => stream.err = "ValueError"

(* C19. to_top on a writer built with a complete System and a top_file path  *)
(* opens exactly the path held in top_file, writes all sections to it and    *)
(* completes without raising.                                                *)

C19_ToTopWritesTopFile ==
    writer.called =>
        /\ writer.err = ""
        /\ writer.opened = <<writer.top_file>>
        /\ writer.lines = to_top_body(writer.system).lines

(* C15. Proper torsions: for a proper quadruplet of a representative         *)
(* molecule, the returned MoleculeType holds one PeriodicProperDihedral per  *)
(* key-map entry whose four atom indices equal the quadruplet in forward     *)
(* order, in key-map order, none merged and none for a reversed key; each    *)
(* record's k is the parameter's k divided by its idivf, or by 1 when the    *)
(* parameter has none.                                                       *)

\* The parameters of the entries of a handler's key map whose atom indices
\* are atom_indices, in key-map order; none when the handler is absent.
ParametersKeyedBy(handler, atom_indices) ==
    IF ~handler.present THEN <<>>
    ELSE LET keyed(e) == e.key.atom_indices = atom_indices
             entries == SelectSeq(handler.key_map, keyed)
         IN [j \in 1..Len(entries) |-> DictGet(handler.potentials, entries[j].val)]

\* The dihedral records of a class that mt holds on the given atoms, in order.
DihedralsOn(mt, kind, atoms) ==
    LET on(d) == d.kind = kind /\ DihedralAtoms(d) = atoms
    IN SelectSeq(mt.dihedrals, on)

C15_OnePeriodicProperPerForwardKey ==
    \A i \in Returned :
        \A u \in Representatives :
            NameIsUnique(u) =>
                \A n \in 1..Len(ChemPropers(topology[u + 1].chem)) :
                    LET proper == ChemPropers(topology[u + 1].chem)[n]
                        params == ParametersKeyedBy(collections["ProperTorsions"],
                                                    Global(u, proper))
                        records == DihedralsOn(MoleculeTypeOf(results[i].system, u),
                                               "PeriodicProperDihedral", OneBased(proper))
                    IN /\ Len(records) = Len(params)
                       /\ \A k \in 1..Len(records) :
                             /\ records[k].phi = params[k].phase
                             /\ records[k].multiplicity = params[k].periodicity
                             /\ records[k].k =
                                    params[k].k \div (IF "idivf" \in DOMAIN params[k]
                                                      THEN params[k].idivf ELSE 1)

\* A System was returned for hydrogen peroxide whose proper has two key-map
\* entries, the first with an idivf other than 1.
C15_Witness ==
    \E i \in Returned :
        \E u \in Representatives :
            /\ topology[u + 1].chem = "H2O2"
            /\ LET params == ParametersKeyedBy(collections["ProperTorsions"],
                                               Global(u, <<0, 1, 2, 3>>))
                   records == DihedralsOn(MoleculeTypeOf(results[i].system, u),
                                          "PeriodicProperDihedral", <<1, 2, 3, 4>>)
               IN /\ Len(params) = 2
                  /\ Len(records) = 2
                  /\ params[1].idivf > 1
                  /\ records[1].k # params[1].k

(* C16. Ryckaert-Bellemans torsions: for a proper quadruplet of a            *)
(* representative molecule, the returned MoleculeType holds one              *)
(* RyckaertBellemansDihedral with C0..C5 per RBTorsions key-map entry of     *)
(* the quadruplet, whether or not PeriodicProperDihedral records are         *)
(* emitted for it, and the periodic records are the same with and without    *)
(* the RBTorsions handler.                                                   *)

\* The collections with one handler taken away.
Without(handler) == [collections EXCEPT ![handler].present = FALSE]

C16_RyckaertBellemansAlongsidePeriodic ==
    \A i \in Returned :
        \A u \in Representatives :
            NameIsUnique(u) =>
                \A n \in 1..Len(ChemPropers(topology[u + 1].chem)) :
                    LET proper == ChemPropers(topology[u + 1].chem)[n]
                        mt == MoleculeTypeOf(results[i].system, u)
                        params == ParametersKeyedBy(collections["RBTorsions"],
                                                    Global(u, proper))
                        rb == DihedralsOn(mt, "RyckaertBellemansDihedral",
                                          OneBased(proper))
                        periodic == DihedralsOn(mt, "PeriodicProperDihedral",
                                                OneBased(proper))
                        alone(handler, kind) ==
                            DihedralsOn(MoleculeTypeOf(
                                            _convert(topology, Without(handler)).system, u),
                                        kind, OneBased(proper))
                    IN /\ Len(rb) = Len(params)
                       /\ \A k \in 1..Len(rb) :
                             <<rb[k].c0, rb[k].c1, rb[k].c2, rb[k].c3, rb[k].c4, rb[k].c5>>
                                 = <<params[k].C0, params[k].C1, params[k].C2,
                                     params[k].C3, params[k].C4, params[k].C5>>
                       /\ rb = alone("ProperTorsions", "RyckaertBellemansDihedral")
                       /\ periodic = alone("RBTorsions", "PeriodicProperDihedral")

\* A System was returned that holds a Ryckaert-Bellemans and a periodic
\* record on the same four atoms.
C16_Witness ==
    \E i \in Returned :
        \E j \in 1..Len(results[i].system.molecule_types) :
            LET mt == results[i].system.molecule_types[j].val
            IN \E a, b \in 1..Len(mt.dihedrals) :
                  /\ mt.dihedrals[a].kind = "PeriodicProperDihedral"
                  /\ mt.dihedrals[b].kind = "RyckaertBellemansDihedral"
                  /\ DihedralAtoms(mt.dihedrals[a]) = DihedralAtoms(mt.dihedrals[b])

(* C17. Residue names: a call of _convert on a topology with a               *)
(* representative molecule of which some but not all atoms carry a           *)
(* residue_name ends in NotImplementedError; when it returns a System, the   *)
(* atom records of a molecule none of whose atoms carried one have the       *)
(* molecule's name as residue_name, and the atom records of a molecule all   *)
(* of whose atoms carried one keep each atom's own residue name.             *)

\* The residue_name metadata of the atoms of the molecule with index m.
ResidueNames(m) ==
    {topology[m + 1].resname[j] : j \in 1..Len(topology[m + 1].resname)}

SomeButNotAll(m) == None \in ResidueNames(m) /\ Cardinality(ResidueNames(m)) > 1

C17_ResidueNames ==
    [][results' # results =>
          LET r == results'[Len(results')]
          IN /\ (\E u \in Representatives : SomeButNotAll(u))
                    => r.err = "NotImplementedError"
             /\ r.err = "" =>
                    \A u \in Representatives :
                        (\A v \in Representatives :
                             topology'[v + 1].name = topology'[u + 1].name => v = u) =>
                            LET atoms == DictGet(r.system.molecule_types,
                                                 topology'[u + 1].name).atoms
                            IN /\ Len(atoms) = NAtoms(topology[u + 1].chem)
                               /\ ResidueNames(u) = {None} =>
                                      \A k \in 1..Len(atoms) :
                                          atoms[k].residue_name = topology'[u + 1].name
                               /\ None \notin ResidueNames(u) =>
                                      \A k \in 1..Len(atoms) :
                                          atoms[k].residue_name
                                              = topology[u + 1].resname[k]
      ]_vars

\* A call ended in NotImplementedError on a topology with a molecule whose
\* first atom only carries a residue name.
C17_Witness ==
    /\ \E i \in 1..Len(results) : results[i].err = "NotImplementedError"
    /\ \E u \in Representatives : SomeButNotAll(u)

(* C18. Pairs de-duplicated as unordered pairs: in every MoleculeType of a   *)
(* returned System every pair record has atom1 < atom2 and no two pair       *)
(* records have the same (atom1, atom2), also when the enumerator yields a   *)
(* pair more than once or from either end.                                   *)

C18_PairsUnique ==
    \A i \in Returned :
        \A j \in 1..Len(results[i].system.molecule_types) :
            LET pairs == results[i].system.molecule_types[j].val.pairs
            IN /\ \A k \in 1..Len(pairs) : pairs[k].atom1 < pairs[k].atom2
               /\ \A k, l \in 1..Len(pairs) : pairs[k] = pairs[l] => k = l

(* C14. Failure before output: when to_top fails on an unsupported           *)
(* configuration (more than one molecule, a missing vdW or Electrostatics    *)
(* handler) or on a missing parameter match (an atom without a vdW slot),    *)
(* no file has been opened.                                                  *)

Unsupported(sys) ==
    \/ Len(sys.topology) > 1
    \/ "vdW" \notin DOMAIN sys.handlers
    \/ "Electrostatics" \notin DOMAIN sys.handlers

MissingMatch(sys) ==
    /\ "vdW" \in DOMAIN sys.handlers
    /\ \E i \in 1..Len(topology_atoms(sys.topology)) : ~has_lj_parameters(sys, i - 1)

C14_FailureBeforeFileOpened ==
    \A k \in 1..Len(files) :
        /\ files[k].call = "to_top"
        /\ files[k].err # ""
        /\ Unsupported(openff_sys) \/ MissingMatch(openff_sys)
        => ~files[k].opened /\ files[k].lines = <<>>

(* C20. to_gro writes a title line, an atom-count line, one line per         *)
(* topology atom (residue index, residue name, atom name, 1-based atom       *)
(* index modulo 100000, three positions), as many as the count line says,    *)
(* and one box line of 3 values for a diagonal box matrix and of 9 values    *)
(* otherwise.                                                                *)

C20_GroLayout ==
    \A k \in 1..Len(files) :
        files[k].call = "to_gro" =>
            LET lines == files[k].lines
                atoms == topology_atoms(openff_sys.topology)
                n == Len(atoms)
                box == openff_sys.box
                diagonal == \A i, j \in 1..3 : i # j => box[i][j] = 0
            IN /\ files[k].err = ""
               /\ Len(lines) = n + 3
               /\ lines[1].section = "title"
               /\ lines[2].section = "count"
               /\ lines[2].fields = <<n>>
               /\ \A i \in 1..n :
                     /\ lines[2 + i].section = "atom"
                     /\ lines[2 + i].fields =
                            <<1, "FOO", SYMBOLS(atoms[i]) \o ToString(i), i % 100000,
                              openff_sys.positions[i][1], openff_sys.positions[i][2],
                              openff_sys.positions[i][3]>>
               /\ lines[n + 3].section = "box"
               /\ Len(lines[n + 3].fields) = IF diagonal THEN 3 ELSE 9

\* to_gro has written a file for a System of several atoms in a box that is
\* not diagonal.
C20_Witness ==
    \E k \in 1..Len(files) :
        /\ files[k].call = "to_gro"
        /\ Len(topology_atoms(openff_sys.topology)) > 1
        /\ openff_sys.box[2][1] # 0
        /\ Len(files[k].lines[Len(files[k].lines)].fields) = 9

(* C21. Atom types resolve: in every System _convert returns, the atom_type  *)
(* of every atom record of every MoleculeType is a key of system.atom_types, *)
(* and the AtomType under that key carries that name and the atomic number   *)
(* of the atom the record was built from.                                    *)

\* The representative the MoleculeType stored under a name was built from: the
\* last one of that name.
TemplateSource(name) ==
    CHOOSE u \in Representatives :
        /\ topology[u + 1].name = name
        /\ \A v \in Representatives : topology[v + 1].name = name => v <= u

\* The atomic number of the atom a record of that MoleculeType was built from.
SourceAtomicNumber(name, atom) == ChemAtoms(topology[TemplateSource(name) + 1].chem)[atom.index]

C21_AtomTypesResolve ==
    \A i \in Returned :
        LET system == results[i].system
        IN \A j \in 1..Len(system.molecule_types) :
              \A k \in 1..Len(system.molecule_types[j].val.atoms) :
                  LET atom == system.molecule_types[j].val.atoms[k]
                  IN /\ DictHas(system.atom_types, atom.atom_type)
                     /\ DictGet(system.atom_types, atom.atom_type).name = atom.atom_type
                     /\ DictGet(system.atom_types, atom.atom_type).atomic_number
                            = SourceAtomicNumber(system.molecule_types[j].key, atom)

(* C22. Missing Electrostatics: when the Interchange has a vdW handler with  *)
(* a supported mixing rule and no Electrostatics handler, every call of      *)
(* _convert fails with UnsupportedExportError and returns no System.         *)

\* The vdW handler is present and its mixing rule has a combination rule.
SupportedvdW ==
    /\ collections["vdW"].present
    /\ combination_rule_of(lower(collections["vdW"].mixing_rule)) # 0

C22_MissingElectrostaticsUnsupported ==
    (SupportedvdW /\ ~collections["Electrostatics"].present)
        => \A i \in 1..Len(results) : results[i].err = "UnsupportedExportError"

(* C23. Pairs and the gen_pairs flag: the loop over the 1-4 pairs of a       *)
(* representative molecule appends pair records only when the flag is        *)
(* enabled, one per pair; with the flag disabled and at least one pair it    *)
(* raises NotImplementedError and appends nothing. Every System _convert     *)
(* returns has gen_pairs enabled and nonbonded_function 1.                   *)

\* The set of line 161 for representative u, as the loop reads it.
PairSet(u) == dedup(_get_14_pairs(topology[u + 1].chem), {})

C23_PairsOnlyWithGenPairs ==
    /\ \A i \in Returned :
          /\ results[i].system.gen_pairs = TRUE
          /\ results[i].system.nonbonded_function = 1
    /\ \A u \in Representatives :
          LET enabled == pairs_loop(PairSet(u), TRUE, <<>>)
              disabled == pairs_loop(PairSet(u), FALSE, <<>>)
          IN /\ enabled.err = ""
             /\ Len(enabled.pairs) = Len(PairSet(u))
             /\ disabled.pairs = <<>>
             /\ disabled.err = IF PairSet(u) = <<>> THEN "" ELSE "NotImplementedError"

\* A System was returned for a topology whose representative has a 1-4 pair,
\* and its MoleculeType holds the pair records.
C23_Witness ==
    \E i \in Returned :
        \E u \in Representatives :
            /\ PairSet(u) # <<>>
            /\ NameIsUnique(u)
            /\ Len(MoleculeTypeOf(results[i].system, u).pairs) = Len(PairSet(u))

(* C24. The writer's fatal branches: in every System _convert returns every  *)
(* atom type is a LennardJonesAtomType and every dihedral is a               *)
(* PeriodicProperDihedral, a RyckaertBellemansDihedral or a                  *)
(* PeriodicImproperDihedral, so that no section method called on a writer    *)
(* built on such a System raises.                                            *)

\* The stream was written to by a writer built on a System _convert returned.
WrittenFromReturned ==
    /\ stream.calls # <<>>
    /\ \E i \in Returned : stream.system = results[i].system

C24_WriterFatalBranchesUnreachable ==
    /\ \A i \in Returned :
          LET system == results[i].system
          IN /\ \A j \in 1..Len(system.atom_types) :
                    system.atom_types[j].val.kind = "LennardJonesAtomType"
             /\ \A j \in 1..Len(system.molecule_types) :
                    \A k \in 1..Len(system.molecule_types[j].val.dihedrals) :
                        system.molecule_types[j].val.dihedrals[k].kind \in DihedralVariants
    /\ WrittenFromReturned => stream.err = ""

\* [ atomtypes ] and the molecule types were written from a returned System
\* that holds dihedrals of all three variants.
C24_Witness ==
    /\ WrittenFromReturned
    /\ stream.calls = <<"_write_atomtypes", "_write_moleculetypes">>
    /\ stream.err = ""
    /\ {d.kind : d \in UNION {{stream.system.molecule_types[j].val.dihedrals[k] :
                                  k \in 1..Len(stream.system.molecule_types[j].val.dihedrals)} :
                              j \in 1..Len(stream.system.molecule_types)}}
           = DihedralVariants

(* C25. _convert leaves its input alone: no call of _convert, returning or   *)
(* raising, changes the Interchange's topology; every molecule's name and    *)
(* every atom's residue_name metadata are after the call what they were      *)
(* before it.                                                                *)

C25_InputUnchanged == [][topology' = topology]_vars

(* C26. Templates and counts: in every System _convert returns,              *)
(* system.molecules and system.molecule_types have the same keys, one for    *)
(* every isomorphism class of the topology's molecules, and every count is   *)
(* at least one.                                                             *)

C26_OneTemplatePerClass ==
    \A i \in Returned :
        LET system == results[i].system
        IN /\ DictKeys(system.molecules) = DictKeys(system.molecule_types)
           /\ Len(system.molecule_types) = Cardinality(Representatives)
           /\ \A j \in 1..Len(system.molecules) : system.molecules[j].val >= 1

(* C27. Handlers hold the latest matches only: after store_matches and       *)
(* store_potentials were called in turn on one handler instance, any number  *)
(* of times, slot_map holds exactly the matches of the latest store_matches  *)
(* call and the keys of potentials are the values of slot_map.               *)

\* The calls so far are store_matches, store_potentials, store_matches, ...,
\* store_potentials.
StoredInTurn ==
    /\ store_calls # <<>>
    /\ Len(store_calls) % 2 = 0
    /\ \A k \in 1..Len(store_calls) :
          store_calls[k].method =
              IF k % 2 = 1 THEN "store_matches" ELSE "store_potentials"

LatestMatches == store_calls[Len(store_calls) - 1].matches

SlotMapIsLatest ==
    /\ {potential_handler.slot_map[j].key.atom_indices :
            j \in 1..Len(potential_handler.slot_map)}
           = {LatestMatches[j].key : j \in 1..Len(LatestMatches)}
    /\ \A j \in 1..Len(potential_handler.slot_map) :
          \E k \in 1..Len(LatestMatches) :
              /\ LatestMatches[k].key = potential_handler.slot_map[j].key.atom_indices
              /\ LatestMatches[k].smirks = potential_handler.slot_map[j].val.id

PotentialsAreSlotValues ==
    {potential_handler.potentials[j].key : j \in 1..Len(potential_handler.potentials)}
        = {potential_handler.slot_map[j].val : j \in 1..Len(potential_handler.slot_map)}

C27_HandlerHoldsLatestOnly ==
    StoredInTurn => (SlotMapIsLatest /\ PotentialsAreSlotValues)

(* C28. Constraints: after store_constraints succeeded, every atom pair its  *)
(* parameter handler matched has a slot in slot_map whose potential key is a *)
(* key of constraints, whether the distance is the parameter's own or the    *)
(* bond handler's; a matched constraint without a distance, with no bond     *)
(* handler supplied, ends the call in MissingParametersError.                *)

LastConstraintCall == constraint_handler.calls[Len(constraint_handler.calls)]

\* Some match of the call has a parameter without a distance.
SomeDistanceMissing(call) ==
    \E j \in 1..Len(call.matches) :
        get_parameter("Constraints", call.matches[j].smirks).distance = <<>>

C28_ConstraintsSlotted ==
    constraint_handler.calls # <<>> =>
        /\ LastConstraintCall.err = "" =>
              \A j \in 1..Len(LastConstraintCall.matches) :
                  LET topology_key == TopologyKey(LastConstraintCall.matches[j].key, None)
                  IN /\ DictHas(constraint_handler.slot_map, topology_key)
                     /\ DictHas(constraint_handler.constraints,
                                DictGet(constraint_handler.slot_map, topology_key))
        /\ (SomeDistanceMissing(LastConstraintCall) /\ ~LastConstraintCall.bond_handler)
              => LastConstraintCall.err = "MissingParametersError"

====
